---- MODULE Spec2Model ----
(***************************************************************************)
(* PicoCTR PICOBOOT WebUSB flasher (js/picoboot.js) and the firmware       *)
(* section of the web application (js/app.js).                             *)
(*                                                                         *)
(* One PicobootConnection object is modelled over its lifetime: the USB    *)
(* device handle, the command token, and the asynchronous calls running on *)
(* it.  Every call is an async function: it runs synchronously up to the   *)
(* next awaited USB transfer, so one step of the model is "a transfer      *)
(* settles and the continuation runs up to the next transfer it submits".  *)
(*                                                                         *)
(* 32-bit words are kept as two 16-bit halves [hi, lo], because several    *)
(* constants of the program (magic numbers, family ids) exceed 2^31.       *)
(*                                                                         *)
(* Scope: connect() is modelled where it succeeds; a connection serves one *)
(* flashUF2 call; the bytes of a write chunk are not carried, its address  *)
(* and length are; the token does not reach its 32-bit wrap.               *)
(***************************************************************************)
EXTENDS Integers, Sequences, FiniteSets, TLC

VARIABLES
    device,      \* PicobootConnection._device: "null" or "open"
    attached,    \* the USB device: "attached", "detached" (unplugged or
                 \* rebooted, 'disconnect' event not yet dispatched), "notified"
    listening,   \* the 'disconnect' listener installed by onDisconnect():
                 \* "no", "api" (a caller's callback), "app" (app.js's callback)
    token,       \* PicobootConnection._token
    built,       \* tokens written by _buildCommand, in build order
    tasks,       \* the async calls running on the connection, by name
    faults,      \* failing transfer outcomes the environment may still inject
    picoboot,    \* app.js: picoboot ("null" or "conn")
    selectedUF2, \* app.js: selectedUF2 (0 = null, else an image number)
    isFlashing,  \* app.js: isFlashing
    input,       \* the argument a static function is applied to
    output       \* what the static function returned or threw

vars == <<device, attached, listening, token, built, tasks, faults,
          picoboot, selectedUF2, isFlashing, input, output>>

(***************************************************************************)
(* Bounds of the model.                                                    *)
(***************************************************************************)
\* failing transfer outcomes (stall, babble, reject) the environment injects
MaxFaults == 3
\* the same, in the runs of the application
AppFaults == 0
\* 4 KiB chunks of flash the device serves to READ before it stalls the read
FlashChunks == 1

(***************************************************************************)
(* Program constants.                                                      *)
(***************************************************************************)
UF2_BLOCK_SIZE == 512
FLASH_SECTOR_SIZE == 4096
FLASH_PAGE_SIZE == 256
MAX_RETRIES == 3
UF2_PAYLOAD_OFFSET == 32
FLASH_BASE == 268435456
READ_SIZE == 4096
MAX_READ == 262144
CMD_FRAME_SIZE == 32

CMD_EXCLUSIVE_ACCESS == 1
CMD_REBOOT == 2
CMD_FLASH_ERASE == 3
CMD_READ == 132
CMD_WRITE == 5
CMD_EXIT_XIP == 6

U32(h, l) == [hi |-> h, lo |-> l]
UF2_MAGIC_START0 == U32(\H0A32, \H4655)
UF2_MAGIC_START1 == U32(\H9E5D, \H5157)
UF2_MAGIC_END == U32(\H0AB1, \H6F30)
RP2040_FAMILY_ID == U32(\HE48B, \HFF56)
RP2350_ARM_S_FAMILY_ID == U32(\HE48B, \HFF59)
RP2350_ARM_NS_FAMILY_ID == U32(\HE48B, \HFF5A)
RP2350_RISCV_FAMILY_ID == U32(\HE48B, \HFF5B)
\* bit 13 of the flags word (0x00002000)
UF2_FLAG_FAMILY == 8192

(***************************************************************************)
(* DataView helpers.                                                       *)
(***************************************************************************)
\* view.getUint32(off, true) on the bytes of data starting at base (0-based)
getUint32(data, base, off) ==
    [lo |-> data[base + off + 1] + 256 * data[base + off + 2],
     hi |-> data[base + off + 3] + 256 * data[base + off + 4]]

\* the number a word denotes (the model's inputs keep it below 2^31)
Num(w) == w.hi * 65536 + w.lo

\* flags & UF2_FLAG_FAMILY
HasFamilyFlag(flags) == (flags.lo \div UF2_FLAG_FAMILY) % 2 = 1

\* slice starting one byte late
slice_lateStart(data, from, to) ==
    LET n == Len(data)
        f == IF from + 1 > n THEN n ELSE from + 1
        t == IF to > n THEN n ELSE to
    IN  IF t <= f THEN <<>> ELSE SubSeq(data, f + 1, t)

\* Uint8Array.prototype.slice(from, to): both ends clamped to the length
slice(data, from, to) ==
    LET n == Len(data)
        f == IF from > n THEN n ELSE from
        t == IF to > n THEN n ELSE to
    IN  IF t <= f THEN <<>> ELSE SubSeq(data, f + 1, t)

(***************************************************************************)
(* UF2 parser.                                                             *)
(***************************************************************************)
validFamilies ==
    {RP2040_FAMILY_ID, RP2350_ARM_S_FAMILY_ID,
     RP2350_ARM_NS_FAMILY_ID, RP2350_RISCV_FAMILY_ID}

ZeroWord == U32(0, 0)

RECURSIVE parseBlocks_skipInvalid(_, _, _, _, _)
\* the loop of parseUF2 passing over a record whose magic words are wrong
\* instead of throwing
parseBlocks_skipInvalid(data, i, numBlocks, blocks, familyId) ==
    IF i >= numBlocks
    THEN [ok |-> TRUE, err |-> "none", index |-> -1,
          blocks |-> blocks, familyId |-> familyId]
    ELSE
      LET offset == i * UF2_BLOCK_SIZE
          flags == getUint32(data, offset, 8)
          blockFamilyId == getUint32(data, offset, 28)
          payload == slice(data, offset + UF2_PAYLOAD_OFFSET,
                           offset + UF2_PAYLOAD_OFFSET
                           + Num(getUint32(data, offset, 16)))
          block == [addr |-> Num(getUint32(data, offset, 12)),
                    data |-> payload,
                    blockNo |-> Num(getUint32(data, offset, 20)),
                    numBlocks |-> Num(getUint32(data, offset, 24))]
      IN  IF \/ getUint32(data, offset, 0) # UF2_MAGIC_START0
             \/ getUint32(data, offset, 4) # UF2_MAGIC_START1
             \/ getUint32(data, offset, UF2_BLOCK_SIZE - 4) # UF2_MAGIC_END
          THEN parseBlocks_skipInvalid(data, i + 1, numBlocks, blocks,
                                       familyId)
          ELSE IF HasFamilyFlag(flags) /\ i # 0 /\ blockFamilyId # familyId
          THEN [ok |-> FALSE, err |-> "inconsistent family ID", index |-> i,
                blocks |-> <<>>, familyId |-> familyId]
          ELSE parseBlocks_skipInvalid(data, i + 1, numBlocks,
                                       Append(blocks, block),
                                       IF HasFamilyFlag(flags) /\ i = 0
                                       THEN blockFamilyId ELSE familyId)

RECURSIVE parseBlocks(_, _, _, _, _)
\* the for loop of parseUF2: record i of numBlocks, blocks and familyId so far
parseBlocks(data, i, numBlocks, blocks, familyId) ==
    IF i >= numBlocks
    THEN [ok |-> TRUE, err |-> "none", index |-> -1,
          blocks |-> blocks, familyId |-> familyId]
    ELSE
      LET offset == i * UF2_BLOCK_SIZE
          magic0 == getUint32(data, offset, 0)
          magic1 == getUint32(data, offset, 4)
          magicEnd == getUint32(data, offset, UF2_BLOCK_SIZE - 4)
          flags == getUint32(data, offset, 8)
          targetAddr == getUint32(data, offset, 12)
          payloadSize == getUint32(data, offset, 16)
          blockNo == getUint32(data, offset, 20)
          numBlocksInFile == getUint32(data, offset, 24)
          blockFamilyId == getUint32(data, offset, 28)
          fail(e) == [ok |-> FALSE, err |-> e, index |-> i,
                      blocks |-> <<>>, familyId |-> familyId]
          payload == slice(data, offset + UF2_PAYLOAD_OFFSET,
                           offset + UF2_PAYLOAD_OFFSET + Num(payloadSize))
          block == [addr |-> Num(targetAddr), data |-> payload,
                    blockNo |-> Num(blockNo), numBlocks |-> Num(numBlocksInFile)]
      IN  IF magic0 # UF2_MAGIC_START0 THEN fail("bad magic0")
          ELSE IF magic1 # UF2_MAGIC_START1 THEN fail("bad magic1")
          ELSE IF magicEnd # UF2_MAGIC_END THEN fail("bad end magic")
          ELSE IF HasFamilyFlag(flags) /\ i # 0 /\ blockFamilyId # familyId
               THEN fail("inconsistent family ID")
          ELSE parseBlocks(data, i + 1, numBlocks, Append(blocks, block),
                           IF HasFamilyFlag(flags) /\ i = 0
                           THEN blockFamilyId ELSE familyId)

parseUF2(uf2Data) ==
    LET totalFileSize == Len(uf2Data)
    IN  IF totalFileSize % UF2_BLOCK_SIZE # 0
        THEN [ok |-> FALSE, err |-> "bad size", index |-> -1,
              blocks |-> <<>>, familyId |-> ZeroWord, totalBlocks |-> 0]
        ELSE
          LET numBlocks == totalFileSize \div UF2_BLOCK_SIZE
              r == parseBlocks(uf2Data, 0, numBlocks, <<>>, ZeroWord)
          IN  IF ~r.ok
              THEN [ok |-> FALSE, err |-> r.err, index |-> r.index,
                    blocks |-> <<>>, familyId |-> r.familyId, totalBlocks |-> 0]
              ELSE IF r.familyId # ZeroWord /\ r.familyId \notin validFamilies
              THEN [ok |-> FALSE, err |-> "bad family", index |-> -1,
                    blocks |-> <<>>, familyId |-> r.familyId, totalBlocks |-> 0]
              ELSE [ok |-> TRUE, err |-> "none", index |-> -1,
                    blocks |-> r.blocks, familyId |-> r.familyId,
                    totalBlocks |-> numBlocks]

(***************************************************************************)
(* Flash planning.                                                         *)
(***************************************************************************)
RECURSIVE insertByAddr(_, _)
\* place block b after every block of the sorted list s whose addr is <= b.addr
insertByAddr(s, b) ==
    IF s = <<>> THEN <<b>>
    ELSE IF Head(s).addr <= b.addr THEN <<Head(s)>> \o insertByAddr(Tail(s), b)
    ELSE <<b>> \o s

\* the blocks left in the order of the file
sortByAddr_asStored(blocks) == blocks

RECURSIVE sortByAddr(_)
\* blocks.sort((a, b) => a.addr - b.addr): ascending by addr, stable
sortByAddr(blocks) ==
    IF blocks = <<>> THEN <<>>
    ELSE insertByAddr(sortByAddr(SubSeq(blocks, 1, Len(blocks) - 1)),
                      blocks[Len(blocks)])

\* the sectors one block adds to the set in _computeEraseRanges
blockSectors(block) ==
    LET startSector == (block.addr \div FLASH_SECTOR_SIZE) * FLASH_SECTOR_SIZE
        endAddr == block.addr + Len(block.data)
    IN  {s \in {startSector + k * FLASH_SECTOR_SIZE :
                  k \in 0..((Len(block.data) \div FLASH_SECTOR_SIZE) + 1)} :
           s < endAddr}

RECURSIVE sortedSeq(_)
\* Array.from(sectors).sort((a, b) => a - b)
sortedSeq(S) ==
    IF S = {} THEN <<>>
    ELSE LET m == CHOOSE x \in S : \A y \in S : x <= y
         IN  <<m>> \o sortedSeq(S \ {m})

RECURSIVE mergeSectors_noMerge(_, _, _, _, _)
\* the merge loop closing the range at every sector, contiguous or not
mergeSectors_noMerge(sorted, i, rangeStart, rangeEnd, ranges) ==
    IF i > Len(sorted)
    THEN Append(ranges, [addr |-> rangeStart, length |-> rangeEnd - rangeStart])
    ELSE mergeSectors_noMerge(sorted, i + 1, sorted[i],
                              sorted[i] + FLASH_SECTOR_SIZE,
                              Append(ranges,
                                     [addr |-> rangeStart,
                                      length |-> rangeEnd - rangeStart]))

RECURSIVE mergeSectors(_, _, _, _, _)
\* the merge loop of _computeEraseRanges from index i of sorted
mergeSectors(sorted, i, rangeStart, rangeEnd, ranges) ==
    IF i > Len(sorted)
    THEN Append(ranges, [addr |-> rangeStart, length |-> rangeEnd - rangeStart])
    ELSE IF sorted[i] = rangeEnd
    THEN mergeSectors(sorted, i + 1, rangeStart,
                      rangeEnd + FLASH_SECTOR_SIZE, ranges)
    ELSE mergeSectors(sorted, i + 1, sorted[i], sorted[i] + FLASH_SECTOR_SIZE,
                      Append(ranges, [addr |-> rangeStart,
                                      length |-> rangeEnd - rangeStart]))

_computeEraseRanges(blocks) ==
    LET sectors == UNION {blockSectors(blocks[k]) : k \in 1..Len(blocks)}
        sorted == sortedSeq(sectors)
    IN  IF Len(sorted) = 0 THEN <<>>
        ELSE mergeSectors(sorted, 2, sorted[1],
                          sorted[1] + FLASH_SECTOR_SIZE, <<>>)

(***************************************************************************)
(* Input images: UF2 containers, byte for byte.                            *)
(***************************************************************************)
LE16(n) == <<n % 256, n \div 256>>
wordBytes(w) == LE16(w.lo) \o LE16(w.hi)
numWord(n) == U32(n \div 65536, n % 65536)

\* one 512-byte UF2 record: 32-byte header, 476-byte payload area, end magic
uf2Record(magic0, magic1, flags, targetAddr, payloadSize, blockNo, numBlocksInFile, familyId, seed, magicEnd) ==
    wordBytes(magic0) \o wordBytes(magic1) \o wordBytes(numWord(flags))
    \o wordBytes(numWord(targetAddr)) \o wordBytes(numWord(payloadSize))
    \o wordBytes(numWord(blockNo)) \o wordBytes(numWord(numBlocksInFile))
    \o wordBytes(familyId)
    \o [j \in 1..(UF2_BLOCK_SIZE - UF2_PAYLOAD_OFFSET - 4) |-> (seed + j) % 256]
    \o wordBytes(magicEnd)

goodRecord(targetAddr, payloadSize, blockNo, numBlocksInFile, seed) ==
    uf2Record(UF2_MAGIC_START0, UF2_MAGIC_START1, UF2_FLAG_FAMILY, targetAddr,
              payloadSize, blockNo, numBlocksInFile, RP2040_FAMILY_ID, seed,
              UF2_MAGIC_END)

\* one 256-byte block at the flash origin
ImgOne == goodRecord(FLASH_BASE, FLASH_PAGE_SIZE, 0, 1, 7)
\* two blocks, stored in descending address order, in sectors 3 and 0; the
\* block at the flash origin carries 300 payload bytes (two write chunks)
ImgTwo ==
    goodRecord(FLASH_BASE + 3 * FLASH_SECTOR_SIZE, FLASH_PAGE_SIZE, 0, 2, 11)
    \o goodRecord(FLASH_BASE, 300, 1, 2, 13)
\* the empty file: a multiple of 512 bytes holding zero records
ImgEmpty == <<>>
\* a record whose trailing magic word is wrong
ImgBadMagic ==
    uf2Record(UF2_MAGIC_START0, UF2_MAGIC_START1, UF2_FLAG_FAMILY, FLASH_BASE,
              FLASH_PAGE_SIZE, 0, 1, RP2040_FAMILY_ID, 7, UF2_MAGIC_START0)
\* a file that is one byte longer than one record
ImgBadSize == ImgOne \o <<0>>
\* a well-formed record for a family that is not RP2040/RP2350
ImgBadFamily ==
    uf2Record(UF2_MAGIC_START0, UF2_MAGIC_START1, UF2_FLAG_FAMILY, FLASH_BASE,
              FLASH_PAGE_SIZE, 0, 1, U32(\H1234, \H5678), 7, UF2_MAGIC_END)

\* one 256-byte block whose target address is 100 bytes past the flash origin
ImgUnaligned == goodRecord(FLASH_BASE + 100, FLASH_PAGE_SIZE, 0, 1, 17)

Images ==
    <<ImgOne, ImgTwo, ImgEmpty, ImgBadMagic, ImgBadSize, ImgBadFamily,
      ImgUnaligned>>
ImageIds == 1..Len(Images)

\* what flashUF2 computes from its argument before the first command
Parsed == [k \in ImageIds |-> parseUF2(Images[k])]
Sorted == [k \in ImageIds |-> sortByAddr(Parsed[k].blocks)]
Ranges == [k \in ImageIds |-> _computeEraseRanges(Sorted[k])]

(***************************************************************************)
(* Commands, as the wrappers of PicobootConnection hand them to            *)
(* _sendCommand: id, argument words, argument size in bytes, length of the *)
(* data phase, and its direction.                                          *)
(***************************************************************************)
PICOBOOT_MAGIC == U32(\H431F, \HD10B)

NoCmd == [id |-> 0, args |-> <<>>, argLen |-> 0, data |-> 0, d2h |-> FALSE]

exclusiveAccess(exclusive) ==
    [id |-> CMD_EXCLUSIVE_ACCESS, args |-> <<IF exclusive THEN 1 ELSE 0>>,
     argLen |-> 1, data |-> 0, d2h |-> FALSE]

exitXip ==
    [id |-> CMD_EXIT_XIP, args |-> <<>>, argLen |-> 0, data |-> 0, d2h |-> FALSE]

flashErase(addr, length) ==
    [id |-> CMD_FLASH_ERASE, args |-> <<addr, length>>, argLen |-> 8,
     data |-> 0, d2h |-> FALSE]

\* data is the chunk; the model carries its length
flashWrite(addr, data) ==
    [id |-> CMD_WRITE, args |-> <<addr, Len(data)>>, argLen |-> 8,
     data |-> Len(data), d2h |-> FALSE]

flashRead(addr, length) ==
    [id |-> CMD_READ, args |-> <<addr, length>>, argLen |-> 8,
     data |-> length, d2h |-> TRUE]

rebootCmd(pc, sp, delayMs) ==
    [id |-> CMD_REBOOT, args |-> <<pc, sp, delayMs>>, argLen |-> 12,
     data |-> 0, d2h |-> FALSE]

(***************************************************************************)
(* The state of one async call (flashUF2, readInstalledFirmwareInfo).      *)
(*   pc      where the call stands: the command it awaits, or its end      *)
(*   cmd     the command _sendCommand is sending                           *)
(*   attempt the loop variable of _sendCommand                             *)
(*   wait    the transfer the call awaits ("none": it awaits nothing)      *)
(*   hist    the transfers the running _sendCommand call has submitted     *)
(*   last    the _sendCommand call that ended last, how, and the number of *)
(*           attempts it made                                              *)
(*   log     progress events and command events of the call, in order     *)
(***************************************************************************)
NoFrame == [size |-> 0, magic |-> ZeroWord, token |-> 0, cmdId |-> 0,
            cmdSize |-> 0, transferLength |-> 0, args |-> <<>>]

NoCall == [id |-> 0, args |-> <<>>, ok |-> FALSE, err |-> "none",
           attempts |-> 0, hist |-> <<>>]

IdleTask ==
    [pc |-> "idle", caller |-> "none", img |-> 0, i |-> 0, off |-> 0,
     erased |-> 0, nread |-> 0, cmd |-> NoCmd, attempt |-> 0, wait |-> "none",
     hist |-> <<>>, last |-> NoCall, err |-> "none", log |-> <<>>]

TaskIds == {"flash", "read"}

\* _resetInterface with its two clearHalt calls exchanged
resetSequence_swapped == <<"halt_out", "halt_in", "if_reset">>

\* the three transfers of _resetInterface, in program order
resetSequence == <<"halt_in", "halt_out", "if_reset">>

\* cmdId & 0x80
isDeviceToHostCmd(cmdId) == (cmdId \div 128) % 2 = 1

\* the acknowledgment taken in the direction of the data phase
ackKind_sameDirection(cmdId) ==
    IF isDeviceToHostCmd(cmdId) THEN "ack_in" ELSE "ack_out"

\* step 3 of _sendCommandOnce: the endpoint the acknowledgment uses
ackKind(cmdId) == IF isDeviceToHostCmd(cmdId) THEN "ack_out" ELSE "ack_in"

\* the retry test without its attempt limit
isRetry_noLimit(err, attempt) == err = "stall"

\* the retry test without its look at the error
isRetry_anyError(err, attempt) == attempt < MAX_RETRIES - 1

\* err.message?.includes('stall') && attempt < MAX_RETRIES - 1
isRetry(err, attempt) == err = "stall" /\ attempt < MAX_RETRIES - 1

\* onProgress(phase, current, total, message)
onProgress(m, phase, current, total) ==
    [m EXCEPT !.t.log = Append(@, [e |-> "progress", phase |-> phase,
                                   cur |-> current, tot |-> total])]

cmdEvent(m, ev) ==
    [m EXCEPT !.t.log = Append(@, [e |-> ev, id |-> m.t.cmd.id,
                                   args |-> m.t.cmd.args])]

\* The synchronous part of a call is run one program block at a time: m.k
\* names the block that runs next ("stop": the call awaits a transfer, or has
\* ended); m.err carries a thrown error to the catch block that receives it.
jump(m, k) == [m EXCEPT !.k = k]
throw(m, k, err) == [m EXCEPT !.k = k, !.err = err]

\* hand one transfer to the USB device and await it
submit(m, kind, frame) ==
    [m EXCEPT !.t.hist = Append(@, [k |-> kind, att |-> m.t.attempt,
                                    frame |-> frame, res |-> "pending"]),
              !.t.wait = kind,
              !.k = "stop"]

\* _buildCommand without this._token++
_buildCommand_noIncrement(m, cmdId, transferLength, cmd) ==
    [frame |-> [size |-> CMD_FRAME_SIZE, magic |-> PICOBOOT_MAGIC,
                token |-> m.token, cmdId |-> cmdId, cmdSize |-> cmd.argLen,
                transferLength |-> transferLength, args |-> cmd.args],
     m |-> [m EXCEPT !.built = Append(@, m.token)]]

\* _buildCommand: the 32-byte frame, and this._token++
_buildCommand(m, cmdId, transferLength, cmd) ==
    [frame |-> [size |-> CMD_FRAME_SIZE, magic |-> PICOBOOT_MAGIC,
                token |-> m.token, cmdId |-> cmdId, cmdSize |-> cmd.argLen,
                transferLength |-> transferLength, args |-> cmd.args],
     m |-> [m EXCEPT !.token = @ + 1, !.built = Append(@, m.token)]]

totalSectors(ranges) ==
    LET RECURSIVE sum(_)
        sum(k) == IF k = 0 THEN 0
                  ELSE sum(k - 1) + ranges[k].length \div FLASH_SECTOR_SIZE
    IN  sum(Len(ranges))

\* _sendCommand(cmdId, args, data, isDeviceToHost) is entered by the call
\* standing at pc: the first attempt is next
_sendCommand(m, pc, cmd) ==
    jump(cmdEvent([m EXCEPT !.t.pc = pc, !.t.cmd = cmd, !.t.attempt = 0,
                            !.t.hist = <<>>], "issue"),
         "_sendCommandOnce")

\* _sendCommandOnce up to its first await: build the frame, send it bulk OUT
_sendCommandOnce(dev, m) ==
    LET cmd == m.t.cmd
        b == _buildCommand(m, cmd.id, cmd.data, cmd)
    IN  IF dev = "null" THEN throw(b.m, "_sendCommand_catch", "nodevice")
        ELSE submit(IF m.t.attempt = 0 THEN cmdEvent(b.m, "sent") ELSE b.m,
                    "cmd", b.frame)

\* step 3 of _sendCommandOnce; an error of the acknowledgment is swallowed
ackPhase(dev, m) ==
    IF dev = "null" THEN jump(m, "resume")
    ELSE submit(m, ackKind(m.t.cmd.id), NoFrame)

\* step 2 of _sendCommandOnce
dataPhase(dev, m) ==
    LET cmd == m.t.cmd
    IN  IF cmd.d2h /\ cmd.data > 0
        THEN IF dev = "null" THEN throw(m, "_sendCommand_catch", "nodevice")
             ELSE submit(m, "data_in", NoFrame)
        ELSE IF ~cmd.d2h /\ cmd.data > 0
        THEN IF dev = "null" THEN throw(m, "_sendCommand_catch", "nodevice")
             ELSE submit(m, "data_out", NoFrame)
        ELSE ackPhase(dev, m)

\* the catch block of _sendCommand retrying without _resetInterface
_sendCommand_catch_noReset(m) ==
    IF isRetry(m.err, m.t.attempt)
    THEN jump([m EXCEPT !.t.attempt = @ + 1], "_sendCommandOnce")
    ELSE jump(m, "raise")

\* the catch block of _sendCommand, receiving m.err
_sendCommand_catch(m) ==
    IF isRetry(m.err, m.t.attempt)
    THEN [m EXCEPT !.k = "_resetInterface", !.ri = 1]
    ELSE jump(m, "raise")

\* _resetInterface from its transfer number m.ri on, then the next attempt;
\* without a device every transfer throws and the throw is caught
_resetInterface(dev, m) ==
    IF m.ri > Len(resetSequence)
    THEN jump([m EXCEPT !.t.attempt = @ + 1], "_sendCommandOnce")
    ELSE IF dev = "null" THEN [m EXCEPT !.ri = @ + 1]
    ELSE submit(m, resetSequence[m.ri], NoFrame)

\* the position of a transfer kind in resetSequence (0: not one of them)
resetIndex(kind) ==
    IF \E k \in 1..Len(resetSequence) : resetSequence[k] = kind
    THEN CHOOSE k \in 1..Len(resetSequence) : resetSequence[k] = kind
    ELSE 0

\* the transfer the call awaits settles with o: where the call goes on
settle(dev, m, o) ==
    LET w == m.t.wait
        m1 == [m EXCEPT !.t.hist[Len(m.t.hist)].res = o, !.t.wait = "none"]
    IN  IF w = "cmd"
        THEN IF o = "ok" THEN dataPhase(dev, m1)
             ELSE throw(m1, "_sendCommand_catch", o)
        ELSE IF w \in {"data_in", "data_out"}
        THEN IF o = "ok" THEN ackPhase(dev, m1)
             ELSE throw(m1, "_sendCommand_catch", o)
        ELSE IF w \in {"ack_in", "ack_out"} THEN jump(m1, "resume")
        ELSE [m1 EXCEPT !.k = "_resetInterface", !.ri = resetIndex(w) + 1]

endCall(m, ok, err) ==
    [cmdEvent(m, IF ok THEN "ok" ELSE "fail")
        EXCEPT !.t.last = [id |-> m.t.cmd.id, args |-> m.t.cmd.args,
                           ok |-> ok, err |-> err,
                           attempts |-> m.t.attempt + 1, hist |-> m.t.hist],
               !.t.hist = <<>>, !.t.cmd = NoCmd, !.t.attempt = 0]

\* the catch block of flashUF2 rethrowing without its progress event
flashUF2_catch_silent(m, err) ==
    [m EXCEPT !.t.pc = "error", !.t.err = err, !.k = "stop"]

\* the catch block of flashUF2
flashUF2_catch(m, err) ==
    [onProgress(m, "error", 0, 1)
        EXCEPT !.t.pc = "error", !.t.err = err, !.k = "stop"]

\* the last statement of flashUF2's try block
flashUF2_done(m) ==
    [onProgress(m, "done", 1, 1) EXCEPT !.t.pc = "done", !.k = "stop"]

\* reboot() without its try/catch: the error of _sendCommand reaches flashUF2
reboot_rethrow(m, ok, err) ==
    IF ok THEN flashUF2_done(m) ELSE flashUF2_catch(m, err)

\* reboot() resolves whether _sendCommand returned or threw; flashUF2 goes on
reboot_settled(m, ok, err) == flashUF2_done(m)

\* flashUF2 going on to its first command whatever parseUF2 returned
flashUF2_unchecked(m, img) ==
    _sendCommand(
        onProgress(onProgress(onProgress([m EXCEPT !.t.img = img],
                                         "parse", 0, 1),
                              "parse", 1, 1), "erase", 0, 1),
        "acquire", exclusiveAccess(TRUE))

\* flashUF2 up to its first command
flashUF2(m, img) ==
    LET m0 == onProgress([m EXCEPT !.t.img = img], "parse", 0, 1)
        parsed == Parsed[img]
    IN  IF ~parsed.ok THEN flashUF2_catch(m0, parsed.err)
        ELSE IF Len(parsed.blocks) = 0
        THEN flashUF2_catch(m0, "no data blocks")
        ELSE _sendCommand(
                 onProgress(onProgress(m0, "parse", 1, 1), "erase", 0, 1),
                 "acquire", exclusiveAccess(TRUE))

\* flashUF2 without its call of reboot()
rebootPhase_skipped(m) == flashUF2_done(onProgress(m, "reboot", 0, 1))

\* phase 5 of flashUF2
rebootPhase(m) ==
    _sendCommand(onProgress(m, "reboot", 0, 1), "reboot", rebootCmd(0, 0, 500))

\* phase 3 of flashUF2: the loop over eraseRanges, m.t.i ranges done
eraseLoop(m) ==
    LET eraseRanges == Ranges[m.t.img]
        total == totalSectors(eraseRanges)
    IN  IF m.t.i < Len(eraseRanges)
        THEN LET range == eraseRanges[m.t.i + 1]
             IN  _sendCommand(onProgress(m, "erase", m.t.erased, total),
                              "erase", flashErase(range.addr, range.length))
        ELSE jump([onProgress(m, "erase", total, total) EXCEPT !.t.i = 0],
                  "writeLoop")

\* the write loop reporting the blocks still to write instead of those written
writeLoop_countsDown(m) ==
    LET blocks == Sorted[m.t.img]
    IN  IF m.t.i < Len(blocks)
        THEN jump([onProgress(m, "write", Len(blocks) - m.t.i, Len(blocks))
                      EXCEPT !.t.off = 0], "chunkLoop")
        ELSE rebootPhase(onProgress(m, "write", Len(blocks), Len(blocks)))

\* phase 4 of flashUF2: the loop over blocks, m.t.i blocks done
writeLoop(m) ==
    LET blocks == Sorted[m.t.img]
    IN  IF m.t.i < Len(blocks)
        THEN jump([onProgress(m, "write", m.t.i, Len(blocks))
                      EXCEPT !.t.off = 0], "chunkLoop")
        ELSE rebootPhase(onProgress(m, "write", Len(blocks), Len(blocks)))

\* the chunk loop handing flashWrite the rest of the block, not 256 bytes
chunkLoop_restOfBlock(m) ==
    LET block == Sorted[m.t.img][m.t.i + 1]
    IN  IF m.t.off < Len(block.data)
        THEN _sendCommand(m, "write",
                 flashWrite(block.addr + m.t.off,
                            slice(block.data, m.t.off, Len(block.data))))
        ELSE jump([m EXCEPT !.t.i = @ + 1], "writeLoop")

\* the loop over the 256-byte chunks of block m.t.i, from offset m.t.off
chunkLoop(m) ==
    LET block == Sorted[m.t.img][m.t.i + 1]
    IN  IF m.t.off < Len(block.data)
        THEN _sendCommand(m, "write",
                 flashWrite(block.addr + m.t.off,
                            slice(block.data, m.t.off,
                                  m.t.off + FLASH_PAGE_SIZE)))
        ELSE jump([m EXCEPT !.t.i = @ + 1], "writeLoop")

\* the release that ends readInstalledFirmwareInfo's reading
releasePhase(m) == _sendCommand(m, "r_release", exclusiveAccess(FALSE))

\* the read loop of readInstalledFirmwareInfo, m.t.i chunks requested so far
readLoop(m) ==
    IF m.t.i * READ_SIZE < MAX_READ
    THEN _sendCommand(m, "r_read",
                      flashRead(FLASH_BASE + m.t.i * READ_SIZE, READ_SIZE))
    ELSE releasePhase(m)

\* readInstalledFirmwareInfo up to its first command
readInstalledFirmwareInfo(m) ==
    _sendCommand(m, "r_acquire", exclusiveAccess(TRUE))

\* readInstalledFirmwareInfo returns its result
readInstalledFirmwareInfo_done(m) == [m EXCEPT !.t.pc = "done", !.k = "stop"]

\* _sendCommand returned: the caller goes on after its await
resume(m) ==
    LET pc == m.t.pc
        m1 == endCall(m, TRUE, "none")
    IN  IF pc = "acquire" THEN _sendCommand(m1, "exitxip", exitXip)
        ELSE IF pc = "exitxip"
        THEN jump([m1 EXCEPT !.t.i = 0, !.t.erased = 0], "eraseLoop")
        ELSE IF pc = "erase"
        THEN jump([m1 EXCEPT !.t.i = @ + 1,
                             !.t.erased = @ + m.t.cmd.args[2]
                                              \div FLASH_SECTOR_SIZE],
                  "eraseLoop")
        ELSE IF pc = "write"
        THEN jump([m1 EXCEPT !.t.off = @ + FLASH_PAGE_SIZE], "chunkLoop")
        ELSE IF pc = "reboot" THEN reboot_settled(m1, TRUE, "none")
        ELSE IF pc = "r_acquire" THEN _sendCommand(m1, "r_exitxip", exitXip)
        ELSE IF pc = "r_exitxip" THEN jump([m1 EXCEPT !.t.i = 0], "readLoop")
        ELSE IF pc = "r_read"
        THEN jump([m1 EXCEPT !.t.i = @ + 1, !.t.nread = @ + 1], "readLoop")
        ELSE readInstalledFirmwareInfo_done(m1)

\* _sendCommand threw m.err: the nearest catch block of the caller runs
raise(m) ==
    LET pc == m.t.pc
        m1 == endCall(m, FALSE, m.err)
    IN  IF pc \in {"acquire", "exitxip", "erase", "write"}
        THEN flashUF2_catch(m1, m.err)
        ELSE IF pc = "reboot" THEN reboot_settled(m1, FALSE, m.err)
        ELSE IF pc \in {"r_acquire", "r_exitxip"}
        THEN [m1 EXCEPT !.t.pc = "error", !.t.err = m.err, !.k = "stop"]
        ELSE IF pc = "r_read" THEN releasePhase(m1)
        ELSE readInstalledFirmwareInfo_done(m1)

\* one program block
step(dev, m) ==
    IF m.k = "_sendCommandOnce" THEN _sendCommandOnce(dev, m)
    ELSE IF m.k = "_sendCommand_catch" THEN _sendCommand_catch(m)
    ELSE IF m.k = "_resetInterface" THEN _resetInterface(dev, m)
    ELSE IF m.k = "resume" THEN resume(m)
    ELSE IF m.k = "raise" THEN raise(m)
    ELSE IF m.k = "eraseLoop" THEN eraseLoop(m)
    ELSE IF m.k = "writeLoop" THEN writeLoop(m)
    ELSE IF m.k = "chunkLoop" THEN chunkLoop(m)
    ELSE readLoop(m)

RECURSIVE run(_, _)
\* the call runs until it awaits a transfer or ends
run(dev, m) == IF m.k = "stop" THEN m ELSE run(dev, step(dev, m))

(***************************************************************************)
(* The USB device, as the transfers of the connection see it.              *)
(***************************************************************************)
AllOutcomes == {"ok", "stall", "babble", "reject"}

\* the device has no flash content left to serve: it stalls the data phase
pastFlashContent(t) ==
    t.pc = "r_read" /\ t.wait = "data_in" /\ t.i >= FlashChunks

\* how the transfer that call t awaits may settle: a transfer status, or
\* "reject" for a rejected promise (a transfer error, a lost device)
Outcomes(t) ==
    IF attached # "attached" THEN {"reject"}
    ELSE IF pastFlashContent(t) THEN {"stall"}
    ELSE IF faults = 0 THEN {"ok"}
    ELSE IF t.wait \in {"cmd", "data_in", "data_out"} THEN AllOutcomes
    ELSE IF t.wait \in {"ack_in", "ack_out"} THEN {"ok", "stall", "reject"}
    ELSE {"ok", "reject"}

machine(id) ==
    [t |-> tasks[id], token |-> token, built |-> built,
     k |-> "stop", err |-> "none", ri |-> 0]

install(id, m) ==
    /\ tasks' = [tasks EXCEPT ![id] = m.t]
    /\ token' = m.token
    /\ built' = m.built

\* the finally block of handleFwFlash runs when its flashUF2 call has settled
flashSettled(t) == t.caller = "app" /\ t.pc \in {"done", "error"}

(***************************************************************************)
(* Steps.                                                                  *)
(***************************************************************************)
\* the transfer that call id awaits settles with outcome o
Settle(id, o) ==
    /\ UNCHANGED <<input, output>>
    /\ tasks[id].wait # "none"
    /\ o \in Outcomes(tasks[id])
    /\ LET m == run(device, settle(device, machine(id), o))
       IN  /\ install(id, m)
           /\ isFlashing' = IF id = "flash" /\ flashSettled(m.t)
                            THEN FALSE ELSE isFlashing
    /\ faults' = IF o = "ok" \/ attached # "attached"
                    \/ pastFlashContent(tasks[id])
                 THEN faults ELSE faults - 1
    /\ UNCHANGED <<device, attached, listening, picoboot, selectedUF2>>

\* the device leaves the bus: it is unplugged, or it reboots
Detach ==
    /\ UNCHANGED <<input, output>>
    /\ attached = "attached"
    /\ attached' = "detached"
    /\ UNCHANGED <<device, listening, token, built, tasks, faults,
                   picoboot, selectedUF2, isFlashing>>

\* resetFirmwareUI of app.js, as far as the page's variables are concerned;
\* its picoboot.disconnect() closes the device when this._device is not null,
\* which the calling action states
resetFirmwareUI ==
    /\ selectedUF2' = 0
    /\ picoboot' = "null"

\* the browser dispatches 'disconnect': the listener of onDisconnect runs
DisconnectEvent ==
    /\ UNCHANGED <<input, output>>
    /\ attached = "detached"
    /\ attached' = "notified"
    /\ IF listening # "no" /\ device = "open"
       THEN /\ device' = "null"
            /\ IF listening = "app" /\ ~isFlashing
               THEN resetFirmwareUI
               ELSE UNCHANGED <<picoboot, selectedUF2>>
       ELSE UNCHANGED <<device, picoboot, selectedUF2>>
    /\ UNCHANGED <<listening, token, built, tasks, faults, isFlashing>>

\* connect() succeeds: the device is opened and its interface claimed
Connect ==
    /\ UNCHANGED <<input, output>>
    /\ device = "null"
    /\ attached = "attached"
    /\ device' = "open"
    /\ UNCHANGED <<attached, listening, token, built, tasks, faults,
                   picoboot, selectedUF2, isFlashing>>

\* a caller of the class installs a disconnect callback
OnDisconnect ==
    /\ UNCHANGED <<input, output>>
    /\ listening = "no"
    /\ listening' = "api"
    /\ UNCHANGED <<device, attached, token, built, tasks, faults,
                   picoboot, selectedUF2, isFlashing>>

\* a caller of the class calls flashUF2(Images[img])
CallFlashUF2(img) ==
    /\ UNCHANGED <<input, output>>
    /\ \A id \in TaskIds : tasks[id].pc = "idle"
    /\ install("flash",
               run(device,
                   flashUF2([machine("flash") EXCEPT !.t.caller = "api"],
                            img)))
    /\ UNCHANGED <<device, attached, listening, faults,
                   picoboot, selectedUF2, isFlashing>>

\* a caller of the class calls readInstalledFirmwareInfo()
CallReadInstalledFirmwareInfo ==
    /\ UNCHANGED <<input, output>>
    /\ \A id \in TaskIds : tasks[id].pc = "idle"
    /\ install("read",
               run(device,
                   readInstalledFirmwareInfo(
                       [machine("read") EXCEPT !.t.caller = "api"])))
    /\ UNCHANGED <<device, attached, listening, faults,
                   picoboot, selectedUF2, isFlashing>>

\* handleFwConnect of app.js, connect() succeeding: the background read of
\* the installed firmware is started and the disconnect listener installed
HandleFwConnect ==
    /\ UNCHANGED <<input, output>>
    /\ picoboot = "null"
    /\ device = "null"
    /\ attached = "attached"
    /\ tasks["read"].pc = "idle"
    /\ picoboot' = "conn"
    /\ device' = "open"
    /\ listening' = "app"
    /\ install("read",
               run("open",
                   readInstalledFirmwareInfo(
                       [machine("read") EXCEPT !.t.caller = "app"])))
    /\ UNCHANGED <<attached, faults, selectedUF2, isFlashing>>

\* handleFwFileSelect / handleFirmwareSelect of app.js with image img:
\* getUF2Info throws when parseUF2 does, and nothing is selected then
HandleFwFileSelect(img) ==
    /\ UNCHANGED <<input, output>>
    /\ picoboot = "conn"
    /\ ~isFlashing
    /\ selectedUF2' = IF Parsed[img].ok THEN img ELSE 0
    /\ UNCHANGED <<device, attached, listening, token, built, tasks, faults,
                   picoboot, isFlashing>>

\* handleFwFlash without its test of isFlashing, run whatever the state of
\* the Flash button
HandleFwFlash_unguarded ==
    /\ UNCHANGED <<input, output>>
    /\ picoboot = "conn"
    /\ selectedUF2 # 0
    /\ LET m == run(device,
                     flashUF2([machine("flash") EXCEPT !.t.caller = "app"],
                              selectedUF2))
       IN  /\ install("flash", m)
           /\ isFlashing' = ~flashSettled(m.t)
    /\ UNCHANGED <<device, attached, listening, faults, picoboot, selectedUF2>>

\* handleFwFlash of app.js, the user confirming
HandleFwFlash ==
    /\ UNCHANGED <<input, output>>
    /\ picoboot = "conn"
    /\ selectedUF2 # 0
    /\ ~isFlashing
    /\ tasks["flash"].pc = "idle"
    /\ LET m == run(device,
                     flashUF2([machine("flash") EXCEPT !.t.caller = "app"],
                              selectedUF2))
       IN  /\ install("flash", m)
           /\ isFlashing' = ~flashSettled(m.t)
    /\ UNCHANGED <<device, attached, listening, faults, picoboot, selectedUF2>>

\* the default stack pointer rebootToNormal passes to reboot (0x20042000)
RP2040_SRAM_END == 537141248

\* returnToConfigMode of app.js, from the click on the Return button to the
\* end of the handler.  rebootToNormal resets the interface and, the device
\* being open and on the bus, builds and sends REBOOT; without a device its
\* IF_RESET request throws and no command is built.  Whatever it did or
\* threw, hideFirmwareSection then runs resetFirmwareUI, which closes the
\* device and drops the connection.  The handler does not look at
\* isFlashing, and handleFwFlash leaves the button enabled.
ReturnToConfigMode ==
    /\ UNCHANGED <<input, output>>
    /\ picoboot = "conn"
    /\ IF device = "open" /\ attached = "attached"
       THEN LET b == _buildCommand(machine("flash"), CMD_REBOOT, 0,
                                   rebootCmd(0, RP2040_SRAM_END, 500))
            IN  /\ token' = b.m.token
                /\ built' = b.m.built
       ELSE UNCHANGED <<token, built>>
    /\ device' = "null"
    /\ resetFirmwareUI
    /\ UNCHANGED <<attached, listening, tasks, faults, isFlashing>>

(***************************************************************************)
(* Specifications.                                                         *)
(*   Spec     one call of the class's API on one connection                *)
(*   AppSpec  the firmware section of the application                      *)
(***************************************************************************)
Init ==
    /\ input = <<>>
    /\ output = <<>>
    /\ device = "null"
    /\ attached = "attached"
    /\ listening = "no"
    /\ token = 1
    /\ built = <<>>
    /\ tasks = [id \in TaskIds |-> IdleTask]
    /\ faults = MaxFaults
    /\ picoboot = "null"
    /\ selectedUF2 = 0
    /\ isFlashing = FALSE

Next ==
    \/ Connect
    \/ OnDisconnect
    \/ \E img \in ImageIds : CallFlashUF2(img)
    \/ CallReadInstalledFirmwareInfo
    \/ \E id \in TaskIds, o \in AllOutcomes : Settle(id, o)
    \/ Detach
    \/ DisconnectEvent

Spec == Init /\ [][Next]_vars

\* Spec with every transfer the flashUF2 call awaits settling in the end (the
\* browser resolves or rejects the promise of each transfer): weak fairness
\* of the Settle steps of the call, which are enabled exactly while the call
\* awaits a transfer and are the steps that change it once it has started
LiveSpec ==
    Spec /\ (\/ []<>(tasks["flash"].wait = "none")
             \/ []<><<tasks'["flash"] # tasks["flash"]>>_vars)

\* the files the user of the page picks from: a valid image, an image without
\* blocks and a damaged one
AppImageIds == {1, 3, 4}

AppInit ==
    /\ input = <<>>
    /\ output = <<>>
    /\ device = "null"
    /\ attached = "attached"
    /\ listening = "no"
    /\ token = 1
    /\ built = <<>>
    /\ tasks = [id \in TaskIds |-> IdleTask]
    /\ faults = AppFaults
    /\ picoboot = "null"
    /\ selectedUF2 = 0
    /\ isFlashing = FALSE

AppNext ==
    \/ HandleFwConnect
    \/ \E img \in AppImageIds : HandleFwFileSelect(img)
    \/ HandleFwFlash
    \/ ReturnToConfigMode
    \/ \E id \in TaskIds, o \in AllOutcomes : Settle(id, o)
    \/ Detach
    \/ DisconnectEvent

AppSpec == AppInit /\ [][AppNext]_vars

(***************************************************************************)
(* parseUF2 applied to files.  A file is put together record by record     *)
(* from RecordChoices, with or without a stray byte after the last record, *)
(* encoded to bytes and handed to parseUF2.                                *)
(***************************************************************************)
\* records a file may hold
MaxRecords == 3

BadWord == U32(\HDEAD, \HBEEF)

\* a record as its fields; seed fixes the bytes of its payload area
Rec(m0, m1, mEnd, flags, family, addr, size, seed) ==
    [m0 |-> m0, m1 |-> m1, mEnd |-> mEnd, flags |-> flags, family |-> family,
     addr |-> addr, size |-> size, seed |-> seed]

GoodRec(flags, family, addr, size, seed) ==
    Rec(UF2_MAGIC_START0, UF2_MAGIC_START1, UF2_MAGIC_END, flags, family,
        addr, size, seed)

RecordChoices ==
    << GoodRec(UF2_FLAG_FAMILY, RP2040_FAMILY_ID, FLASH_BASE, 256, 1),
       GoodRec(UF2_FLAG_FAMILY, RP2040_FAMILY_ID, FLASH_BASE + 256, 476, 2),
       GoodRec(UF2_FLAG_FAMILY, RP2040_FAMILY_ID, FLASH_BASE + 100, 0, 3),
       GoodRec(UF2_FLAG_FAMILY, RP2350_ARM_S_FAMILY_ID, FLASH_BASE, 256, 4),
       GoodRec(0, ZeroWord, FLASH_BASE + 4096, 256, 5),
       GoodRec(0, BadWord, FLASH_BASE + 8192, 256, 6),
       GoodRec(UF2_FLAG_FAMILY, ZeroWord, FLASH_BASE, 256, 7),
       GoodRec(UF2_FLAG_FAMILY, BadWord, FLASH_BASE, 256, 8),
       Rec(BadWord, UF2_MAGIC_START1, UF2_MAGIC_END, UF2_FLAG_FAMILY,
           RP2040_FAMILY_ID, FLASH_BASE, 256, 9),
       Rec(UF2_MAGIC_START0, BadWord, UF2_MAGIC_END, UF2_FLAG_FAMILY,
           RP2040_FAMILY_ID, FLASH_BASE, 256, 10),
       Rec(UF2_MAGIC_START0, UF2_MAGIC_START1, BadWord, UF2_FLAG_FAMILY,
           RP2040_FAMILY_ID, FLASH_BASE, 256, 11),
       GoodRec(UF2_FLAG_FAMILY, RP2040_FAMILY_ID, FLASH_BASE, 480, 12),
       GoodRec(UF2_FLAG_FAMILY, RP2040_FAMILY_ID, FLASH_BASE, 600, 13) >>

\* the bytes of the payload area of record r
payloadArea(r) ==
    [j \in 1..(UF2_BLOCK_SIZE - UF2_PAYLOAD_OFFSET - 4) |-> (r.seed + j) % 256]

RECURSIVE encodeRecords(_, _)
\* the bytes of records recs[k..]
encodeRecords(recs, k) ==
    IF k > Len(recs) THEN <<>>
    ELSE uf2Record(recs[k].m0, recs[k].m1, recs[k].flags, recs[k].addr,
                   recs[k].size, k - 1, Len(recs), recs[k].family,
                   recs[k].seed, recs[k].mEnd)
         \o encodeRecords(recs, k + 1)

\* the bytes of a file: its records, then its stray bytes
encodeFile(file) ==
    encodeRecords(file.recs, 1) \o [j \in 1..file.tail |-> 0]

NoOutput == <<>>

ParseInit ==
    /\ device = "null"
    /\ attached = "attached"
    /\ listening = "no"
    /\ token = 1
    /\ built = <<>>
    /\ tasks = [id \in TaskIds |-> IdleTask]
    /\ faults = 0
    /\ picoboot = "null"
    /\ selectedUF2 = 0
    /\ isFlashing = FALSE
    /\ input = [recs |-> <<>>, tail |-> 0]
    /\ output = NoOutput

connectionVars ==
    <<device, attached, listening, token, built, tasks, faults,
      picoboot, selectedUF2, isFlashing>>

\* the file gets one more record
AddRecord(k) ==
    /\ output = NoOutput
    /\ input.tail = 0
    /\ Len(input.recs) < MaxRecords
    /\ input' = [input EXCEPT !.recs = Append(@, RecordChoices[k])]
    /\ UNCHANGED <<output, connectionVars>>

\* the file gets a stray byte after its last record
AddTail ==
    /\ output = NoOutput
    /\ input.tail = 0
    /\ input' = [input EXCEPT !.tail = 1]
    /\ UNCHANGED <<output, connectionVars>>

\* PicobootConnection.parseUF2(file)
CallParseUF2 ==
    /\ output = NoOutput
    /\ output' = parseUF2(encodeFile(input))
    /\ UNCHANGED <<input, connectionVars>>

ParseNext ==
    \/ \E k \in DOMAIN RecordChoices : AddRecord(k)
    \/ AddTail
    \/ CallParseUF2

ParseSpec == ParseInit /\ [][ParseNext]_vars

(***************************************************************************)
(* Binary info extraction.  Strings are sequences of character codes; the  *)
(* JavaScript null is Null.                                                *)
(***************************************************************************)
BINARY_INFO_MARKER_START == U32(\H7188, \HEBF2)
BINARY_INFO_MARKER_END == U32(\HE71A, \HA390)
BI_TYPE_ID_AND_STRING == 6
BINARY_INFO_TAG_RP == 20562
BINARY_INFO_ID_RP_PROGRAM_NAME == U32(\H0203, \H1C86)
BINARY_INFO_ID_RP_PROGRAM_VERSION_STRING == U32(\H11A9, \HBC3A)
BINARY_INFO_ID_RP_PROGRAM_FEATURE == U32(\HA1F4, \HB453)
BINARY_INFO_ID_RP_PICO_BOARD == U32(\HB63C, \HFFBB)
BINARY_INFO_ID_RP_SDK_VERSION == U32(\H5360, \HB3AB)
RP2040_FLASH_START == 268435456
MAX_WORDS == 64
MAX_STRING == 512
MAX_MAPPINGS == 10
MAX_ENTRIES == 1000

Null == <<-1>>

NullInfo ==
    [board |-> Null, variant |-> Null, version |-> Null, git |-> Null,
     isPicoCTR |-> FALSE]

\* the result of _readAt when a byte is not mapped
NoBytes == [ok |-> FALSE, bytes |-> <<>>]

\* [...blocks].sort((a, b) => a.addr - b.addr)
_buildMemoryMap(blocks) == sortByAddr(blocks)

RECURSIVE findLast(_, _, _, _)
\* the binary search of _findSegment (lo, hi counted from 0): the index of
\* the last segment whose addr is <= addr, or -1
findLast(segments, addr, lo, hi) ==
    IF lo > hi THEN hi
    ELSE LET mid == (lo + hi) \div 2
         IN  IF segments[mid + 1].addr > addr
             THEN findLast(segments, addr, lo, mid - 1)
             ELSE findLast(segments, addr, mid + 1, hi)

\* _findSegment: the index (from 1) of the segment holding addr, or 0 (null)
_findSegment(segments, addr) ==
    LET hi == findLast(segments, addr, 0, Len(segments) - 1)
    IN  IF hi < 0 THEN 0
        ELSE LET seg == segments[hi + 1]
             IN  IF addr >= seg.addr /\ addr < seg.addr + Len(seg.data)
                 THEN hi + 1 ELSE 0

RECURSIVE readLoopAt(_, _, _, _)
\* the while loop of _readAt: remaining bytes from currentAddr, result so far
readLoopAt(segments, currentAddr, remaining, result) ==
    IF remaining <= 0 THEN [ok |-> TRUE, bytes |-> result]
    ELSE LET k == _findSegment(segments, currentAddr)
         IN  IF k = 0 THEN NoBytes
             ELSE LET seg == segments[k]
                      offsetInSeg == currentAddr - seg.addr
                      avail == Len(seg.data) - offsetInSeg
                      toRead == IF remaining < avail THEN remaining ELSE avail
                  IN  readLoopAt(segments, currentAddr + toRead,
                                 remaining - toRead,
                                 result \o SubSeq(seg.data, offsetInSeg + 1,
                                                  offsetInSeg + toRead))

_readAt(segments, addr, size) == readLoopAt(segments, addr, size, <<>>)

\* bytes.indexOf(0), counted from 0; -1 when there is no zero byte
indexOfZero(bytes) ==
    IF \E j \in DOMAIN bytes : bytes[j] = 0
    THEN (CHOOSE j \in DOMAIN bytes :
              bytes[j] = 0 /\ \A i \in 1..(j - 1) : bytes[i] # 0) - 1
    ELSE -1

\* new TextDecoder().decode(bytes) for bytes that are ASCII or lone bytes
\* above 0x7F, each of which decodes to U+FFFD
decode(bytes) ==
    [j \in DOMAIN bytes |-> IF bytes[j] < 128 THEN bytes[j] ELSE 65533]

\* _readString: the decoded string, or Null
_readString(segments, addr) ==
    LET r == _readAt(segments, addr, MAX_STRING)
    IN  IF ~r.ok THEN Null
        ELSE LET found == indexOfZero(r.bytes)
                 end == IF found < 0 THEN Len(r.bytes) ELSE found
             IN  decode(SubSeq(r.bytes, 1, end))

RECURSIVE remapFrom_lastMatch(_, _, _)
\* the loop of _remapAddress going on after a match: the last window that
\* holds addr decides
remapFrom_lastMatch(addr, mappings, k) ==
    IF k > Len(mappings) THEN addr
    ELSE LET rest == remapFrom_lastMatch(addr, mappings, k + 1)
         IN  IF rest # addr THEN rest
             ELSE IF addr >= mappings[k].ramStart /\ addr < mappings[k].ramEnd
             THEN mappings[k].flashStart + (addr - mappings[k].ramStart)
             ELSE addr

RECURSIVE remapFrom(_, _, _)
\* the for loop of _remapAddress from mapping k
remapFrom(addr, mappings, k) ==
    IF k > Len(mappings) THEN addr
    ELSE IF addr >= mappings[k].ramStart /\ addr < mappings[k].ramEnd
    THEN mappings[k].flashStart + (addr - mappings[k].ramStart)
    ELSE remapFrom(addr, mappings, k + 1)

\* _remapAddress(addr, mappings)
_remapAddress(addr, mappings) == remapFrom(addr, mappings, 1)

\* the marker test looking at the start marker only
isHeaderAt_startOnly(headerBytes, i) ==
    getUint32(headerBytes, 0, i * 4) = BINARY_INFO_MARKER_START

\* the marker test of the header scan at word i of headerBytes
isHeaderAt(headerBytes, i) ==
    /\ getUint32(headerBytes, 0, i * 4) = BINARY_INFO_MARKER_START
    /\ getUint32(headerBytes, 0, (i + 4) * 4) = BINARY_INFO_MARKER_END

RECURSIVE scanHeader(_, _)
\* the header scan from word i: found, biStart, biEnd, mappingTableAddr
scanHeader(headerBytes, i) ==
    IF ~(i + 4 < MAX_WORDS)
    THEN [found |-> FALSE, biStart |-> 0, biEnd |-> 0, mappingTableAddr |-> 0]
    ELSE IF isHeaderAt(headerBytes, i)
    THEN LET biStart == Num(getUint32(headerBytes, 0, (i + 1) * 4))
             biEnd == Num(getUint32(headerBytes, 0, (i + 2) * 4))
             table == Num(getUint32(headerBytes, 0, (i + 3) * 4))
         IN  IF biEnd > biStart /\ biStart % 4 = 0 /\ biEnd % 4 = 0
             THEN [found |-> TRUE, biStart |-> biStart, biEnd |-> biEnd,
                   mappingTableAddr |-> table]
             ELSE scanHeader(headerBytes, i + 1)
    ELSE scanHeader(headerBytes, i + 1)

RECURSIVE loadMappings(_, _, _, _)
\* the loop that loads the RAM-to-flash copy table
loadMappings(segments, mappingTableAddr, safety, addrMappings) ==
    IF safety >= MAX_MAPPINGS THEN addrMappings
    ELSE LET e == _readAt(segments, mappingTableAddr, 12)
         IN  IF ~e.ok THEN addrMappings
             ELSE IF getUint32(e.bytes, 0, 0) = ZeroWord THEN addrMappings
             ELSE loadMappings(segments, mappingTableAddr + 12, safety + 1,
                      Append(addrMappings,
                             [flashStart |-> Num(getUint32(e.bytes, 0, 0)),
                              ramStart |-> Num(getUint32(e.bytes, 0, 4)),
                              ramEnd |-> Num(getUint32(e.bytes, 0, 8))]))

\* what the visit of the entries collects
NoEntries ==
    [programName |-> Null, programVersion |-> Null, picoBoard |-> Null,
     sdkVersion |-> Null, programFeatures |-> <<>>]

\* the assignments at the end of the loop body, for entry id with string value
collect(acc, id, value) ==
    IF id = BINARY_INFO_ID_RP_PROGRAM_NAME
    THEN [acc EXCEPT !.programName = value]
    ELSE IF id = BINARY_INFO_ID_RP_PROGRAM_VERSION_STRING
    THEN [acc EXCEPT !.programVersion = value]
    ELSE IF id = BINARY_INFO_ID_RP_PROGRAM_FEATURE
    THEN [acc EXCEPT !.programFeatures = Append(@, value)]
    ELSE IF id = BINARY_INFO_ID_RP_PICO_BOARD
    THEN [acc EXCEPT !.picoBoard = value]
    ELSE IF id = BINARY_INFO_ID_RP_SDK_VERSION
    THEN [acc EXCEPT !.sdkVersion = value]
    ELSE acc

\* the body of the loop over the entries for pointer ptr: acc afterwards
visitEntry(segments, addrMappings, ptr, acc) ==
    IF ptr = 0 THEN acc
    ELSE
      LET entryAddr == _remapAddress(ptr, addrMappings)
          core == _readAt(segments, entryAddr, 4)
      IN  IF ~core.ok THEN acc
          ELSE
            LET type == core.bytes[1] + 256 * core.bytes[2]
                tag == core.bytes[3] + 256 * core.bytes[4]
            IN  IF type = BI_TYPE_ID_AND_STRING /\ tag = BINARY_INFO_TAG_RP
                THEN LET entry == _readAt(segments, entryAddr, 12)
                     IN  IF ~entry.ok THEN acc
                         ELSE
                           LET id == getUint32(entry.bytes, 0, 4)
                               valuePtr == Num(getUint32(entry.bytes, 0, 8))
                               strAddr == _remapAddress(valuePtr, addrMappings)
                               value == _readString(segments, strAddr)
                           IN  IF value = Null \/ value = <<>> THEN acc
                               ELSE collect(acc, id, value)
                ELSE acc

RECURSIVE visitEntries_stopAtUnresolved(_, _, _, _, _, _)
\* the loop over the pointer array giving up at the first entry whose
\* pointer does not resolve
visitEntries_stopAtUnresolved(segments, addrMappings, ptrBytes, i, count, acc) ==
    IF i >= count THEN acc
    ELSE LET ptr == Num(getUint32(ptrBytes, 0, i * 4))
         IN  IF ~_readAt(segments, _remapAddress(ptr, addrMappings), 4).ok
             THEN acc
             ELSE visitEntries_stopAtUnresolved(
                      segments, addrMappings, ptrBytes, i + 1, count,
                      visitEntry(segments, addrMappings, ptr, acc))

RECURSIVE visitEntries(_, _, _, _, _, _)
\* the loop over the pointer array from entry i (counted from 0)
visitEntries(segments, addrMappings, ptrBytes, i, count, acc) ==
    IF i >= count THEN acc
    ELSE visitEntries(segments, addrMappings, ptrBytes, i + 1, count,
                      visitEntry(segments, addrMappings,
                                 Num(getUint32(ptrBytes, 0, i * 4)), acc))

\* String.prototype.startsWith
startsWith(f, prefix) ==
    Len(f) >= Len(prefix) /\ SubSeq(f, 1, Len(prefix)) = prefix

WhiteSpace == {9, 10, 11, 12, 13, 32}

RECURSIVE trimStart(_)
\* String.prototype.trimStart
trimStart(str) ==
    IF str # <<>> /\ Head(str) \in WhiteSpace THEN trimStart(Tail(str))
    ELSE str

RECURSIVE featureFrom(_, _, _)
\* the for loop of getFeatureValue from feature k
featureFrom(programFeatures, prefix, k) ==
    IF k > Len(programFeatures) THEN Null
    ELSE IF startsWith(programFeatures[k], prefix)
    THEN trimStart(SubSeq(programFeatures[k], Len(prefix) + 1,
                          Len(programFeatures[k])))
    ELSE featureFrom(programFeatures, prefix, k + 1)

RECURSIVE featureFromEnd(_, _, _)
featureFromEnd(programFeatures, prefix, k) ==
    IF k < 1 THEN Null
    ELSE IF startsWith(programFeatures[k], prefix)
    THEN trimStart(SubSeq(programFeatures[k], Len(prefix) + 1,
                          Len(programFeatures[k])))
    ELSE featureFromEnd(programFeatures, prefix, k - 1)

\* getFeatureValue returning the last feature with the prefix
getFeatureValue_lastMatch(programFeatures, prefix) ==
    featureFromEnd(programFeatures, prefix, Len(programFeatures))

getFeatureValue(programFeatures, prefix) ==
    featureFrom(programFeatures, prefix, 1)

\* a || b on strings and null: b when a is null or the empty string
orElse(a, b) == IF a = Null \/ a = <<>> THEN b ELSE a

\* toLowerCase leaving the string as it is
toLowerCase_asIs(str) == str

\* String.prototype.toLowerCase on ASCII
toLowerCase(str) ==
    [j \in DOMAIN str |-> IF str[j] >= 65 /\ str[j] <= 90 THEN str[j] + 32
                          ELSE str[j]]

\* String.prototype.includes
includes(str, tok) ==
    \E j \in 0..(Len(str) - Len(tok)) :
        SubSeq(str, j + 1, j + Len(tok)) = tok

\* "Board: ", "Variant: ", "Git: "
PrefixBoard == <<66, 111, 97, 114, 100, 58, 32>>
PrefixVariant == <<86, 97, 114, 105, 97, 110, 116, 58, 32>>
PrefixGit == <<71, 105, 116, 58, 32>>

\* 'picoctr', 'agc', 'americade', 'acustomarcade'
TargetTokens ==
    { <<112, 105, 99, 111, 99, 116, 114>>,
      <<97, 103, 99>>,
      <<97, 109, 101, 114, 105, 99, 97, 100, 101>>,
      <<97, 99, 117, 115, 116, 111, 109, 97, 114, 99, 97, 100, 101>> }

\* the isPicoCTR expression of the return statement
isPicoCTR(board) ==
    board # Null /\ board # <<>>
    /\ \E tok \in TargetTokens : includes(toLowerCase(board), tok)

\* the return statement of extractBinaryInfo
binaryInfoResult(acc) ==
    LET board == orElse(orElse(getFeatureValue(acc.programFeatures,
                                               PrefixBoard),
                               acc.picoBoard), Null)
    IN  [board |-> board,
         variant |-> orElse(getFeatureValue(acc.programFeatures,
                                            PrefixVariant), Null),
         version |-> orElse(acc.programVersion, Null),
         git |-> orElse(getFeatureValue(acc.programFeatures, PrefixGit), Null),
         isPicoCTR |-> isPicoCTR(board)]

extractBinaryInfo(blocks) ==
    IF Len(blocks) = 0 THEN NullInfo
    ELSE
      LET segments == _buildMemoryMap(blocks)
          lowest == segments[1].addr
          base == IF lowest = RP2040_FLASH_START THEN lowest + 256 ELSE lowest
          header == _readAt(segments, base, MAX_WORDS * 4)
      IN  IF ~header.ok THEN NullInfo
          ELSE
            LET h == scanHeader(header.bytes, 0)
            IN  IF ~h.found THEN NullInfo
                ELSE
                  LET addrMappings ==
                          IF h.mappingTableAddr # 0
                          THEN loadMappings(segments, h.mappingTableAddr, 0,
                                            <<>>)
                          ELSE <<>>
                      count == (h.biEnd - h.biStart) \div 4
                      biStartFlash == _remapAddress(h.biStart, addrMappings)
                      ptrs == _readAt(segments, biStartFlash, count * 4)
                  IN  IF count > MAX_ENTRIES THEN NullInfo
                      ELSE IF ~ptrs.ok THEN NullInfo
                      ELSE binaryInfoResult(
                               visitEntries(segments, addrMappings, ptrs.bytes,
                                            0, count, NoEntries))

(***************************************************************************)
(* InfoSpec: extractBinaryInfo applied to images laid out as the Pico SDK  *)
(* lays them out.  Offsets from the flash origin:                          *)
(*   0x000 boot2, 0x100 the 64 header words, 0x210 the pointer array,      *)
(*   0x230 the copy table, 0x260 the entries (16 bytes apart), 0x2E0 the   *)
(*   strings (16 bytes apart), zeros up to 0x600, the end of the image.    *)
(***************************************************************************)
\* entries an image may hold
MaxInfoEntries == 2

ImageSize == 6 * FLASH_PAGE_SIZE
\* the header words follow the 256 bytes of boot2
HeaderAt == 256
PointersAt == HeaderAt + 272
TableAt == PointersAt + 32
EntriesAt == TableAt + 48
StringsAt == EntriesAt + 128
SlotSize == 4 * 4
\* a terminated string in the last 16 bytes of the image
TailStringAt == ImageSize - SlotSize
\* the RAM window the image is copied to, and one whose flash source is
\* past the end of the image; a third table entry names the first window
\* again, with that lost source
RamEntries == 2 * RP2040_FLASH_START
RamLost == RamEntries + FLASH_SECTOR_SIZE
RamWindow == FLASH_PAGE_SIZE
LostAddr == FLASH_BASE + 65536
LostSource == FLASH_BASE + 1048576

TextBoardAGC == PrefixBoard \o <<65, 71, 67, 45, 49>>
TextBoardOther == PrefixBoard \o <<111, 116, 104, 101, 114>>
TextBoardEmpty == PrefixBoard
TextPicoCTR == <<80, 105, 99, 111, 67, 84, 82>>
TextVariant == PrefixVariant \o <<118, 50>>
TextGit == PrefixGit \o <<32, 97, 98, 99>>
TextVersion == <<49, 46, 48>>

\* an entry: its id, its string, where its pointer leads ("flash", "ram":
\* through the copy table, "lost": nowhere) and where its string pointer
\* leads ("flash", "ram", "lost", "tail": the last bytes of the image)
InfoEntry(id, text, at, str) == [id |-> id, text |-> text, at |-> at, str |-> str]

EntryChoices ==
    << InfoEntry(BINARY_INFO_ID_RP_PROGRAM_FEATURE, TextBoardAGC, "flash", "flash"),
       InfoEntry(BINARY_INFO_ID_RP_PROGRAM_FEATURE, TextBoardOther, "flash", "flash"),
       InfoEntry(BINARY_INFO_ID_RP_PROGRAM_FEATURE, TextBoardEmpty, "flash", "flash"),
       InfoEntry(BINARY_INFO_ID_RP_PICO_BOARD, TextPicoCTR, "flash", "flash"),
       InfoEntry(BINARY_INFO_ID_RP_PROGRAM_FEATURE, TextVariant, "flash", "flash"),
       InfoEntry(BINARY_INFO_ID_RP_PROGRAM_FEATURE, TextGit, "flash", "flash"),
       InfoEntry(BINARY_INFO_ID_RP_PROGRAM_VERSION_STRING, TextVersion, "flash", "flash"),
       InfoEntry(BINARY_INFO_ID_RP_PROGRAM_FEATURE, TextBoardAGC, "ram", "ram"),
       InfoEntry(BINARY_INFO_ID_RP_PROGRAM_FEATURE, TextVariant, "lost", "flash"),
       InfoEntry(BINARY_INFO_ID_RP_PROGRAM_VERSION_STRING, TextVersion, "flash", "lost"),
       InfoEntry(BINARY_INFO_ID_RP_PROGRAM_FEATURE, TextGit, "flash", "tail") >>

\* the header: the word the 5-word window starts at, and what is in it
\* ("pair": both markers, "ramPair": both markers and the pointer array
\* named by its RAM address, "startOnly": the 5th word is not the end marker,
\* "none": no marker, "unaligned": biStart and biEnd 2 bytes off,
\* "reversed": biEnd below biStart)
InfoHeader(word, kind) == [word |-> word, kind |-> kind]

HeaderChoices ==
    << InfoHeader(0, "pair"), InfoHeader(59, "pair"), InfoHeader(60, "pair"),
       InfoHeader(0, "ramPair"),
       InfoHeader(0, "startOnly"), InfoHeader(0, "none"),
       InfoHeader(0, "unaligned"), InfoHeader(0, "reversed") >>

\* mem with bytes written at offset at (counted from 0)
put(mem, at, bytes) ==
    [j \in DOMAIN mem |-> IF j > at /\ j <= at + Len(bytes)
                          THEN bytes[j - at] ELSE mem[j]]

RECURSIVE putAll(_, _)
putAll(mem, writes) ==
    IF writes = <<>> THEN mem
    ELSE putAll(put(mem, Head(writes).at, Head(writes).bytes), Tail(writes))

write(at, bytes) == [at |-> at, bytes |-> bytes]

\* where the string of entry k of the image lies, as an offset
stringOffset(e, k) ==
    IF e.str = "tail" THEN TailStringAt ELSE StringsAt + SlotSize * (k - 1)

\* the pointer of the pointer array to entry k
entryPointer(e, k) ==
    IF e.at = "ram" THEN RamEntries + EntriesAt + SlotSize * (k - 1)
    ELSE IF e.at = "lost" THEN LostAddr + SlotSize * (k - 1)
    ELSE FLASH_BASE + EntriesAt + SlotSize * (k - 1)

\* the value pointer of entry k
valuePointer(e, k) ==
    IF e.str = "lost" THEN RamLost + SlotSize * (k - 1)
    ELSE IF e.str = "ram" THEN RamEntries + stringOffset(e, k)
    ELSE FLASH_BASE + stringOffset(e, k)

headerWrites(img) ==
    LET h == img.header
        n == Len(img.entries)
        shift == IF h.kind = "unaligned" THEN 2 ELSE 0
        biStart == (IF h.kind = "ramPair" THEN RamEntries ELSE FLASH_BASE)
                   + PointersAt + shift
        biEnd == IF h.kind = "reversed" THEN biStart - 4 ELSE biStart + 4 * n
        first == IF h.kind = "none" THEN ZeroWord ELSE BINARY_INFO_MARKER_START
        last == IF h.kind \in {"none", "startOnly"}
                THEN ZeroWord ELSE BINARY_INFO_MARKER_END
    IN  << write(HeaderAt + 4 * h.word,
                 wordBytes(first) \o wordBytes(numWord(biStart))
                 \o wordBytes(numWord(biEnd))
                 \o wordBytes(numWord(FLASH_BASE + TableAt))
                 \o wordBytes(last)) >>

tableWrites ==
    << write(TableAt,
             wordBytes(numWord(FLASH_BASE))
             \o wordBytes(numWord(RamEntries))
             \o wordBytes(numWord(RamEntries + ImageSize))
             \o wordBytes(numWord(LostSource))
             \o wordBytes(numWord(RamLost))
             \o wordBytes(numWord(RamLost + RamWindow))
             \o wordBytes(numWord(LostSource))
             \o wordBytes(numWord(RamEntries))
             \o wordBytes(numWord(RamEntries + ImageSize))
             \o wordBytes(ZeroWord)) >>

entryWrites(img) ==
    LET E == img.entries
    IN  [k \in 1..(3 * Len(E)) |->
            LET e == (k - 1) \div 3 + 1
                part == (k - 1) % 3
            IN  IF part = 0
                THEN write(PointersAt + 4 * (e - 1),
                           wordBytes(numWord(entryPointer(E[e], e))))
                ELSE IF part = 1
                THEN write(EntriesAt + SlotSize * (e - 1),
                           LE16(BI_TYPE_ID_AND_STRING) \o LE16(BINARY_INFO_TAG_RP)
                           \o wordBytes(E[e].id)
                           \o wordBytes(numWord(valuePointer(E[e], e))))
                ELSE write(stringOffset(E[e], e), E[e].text \o <<0>>)]

\* the bytes of the image
imageBytes(img) ==
    putAll([j \in 1..ImageSize |-> 0],
           headerWrites(img) \o tableWrites \o entryWrites(img))

\* the image as 256-byte blocks, the block at the highest address first
imageBlocks(img) ==
    LET n == ImageSize \div FLASH_PAGE_SIZE
    IN  CHOOSE blocks \in
            {[k \in 1..n |->
                 [addr |-> FLASH_BASE + (n - k) * FLASH_PAGE_SIZE,
                  data |-> SubSeq(bytes, (n - k) * FLASH_PAGE_SIZE + 1,
                                  (n - k + 1) * FLASH_PAGE_SIZE),
                  blockNo |-> n - k, numBlocks |-> n]] :
               bytes \in {imageBytes(img)}} : TRUE

InfoInit ==
    /\ device = "null"
    /\ attached = "attached"
    /\ listening = "no"
    /\ token = 1
    /\ built = <<>>
    /\ tasks = [id \in TaskIds |-> IdleTask]
    /\ faults = 0
    /\ picoboot = "null"
    /\ selectedUF2 = 0
    /\ isFlashing = FALSE
    /\ input \in {[header |-> HeaderChoices[h], entries |-> <<>>] :
                    h \in DOMAIN HeaderChoices}
    /\ output = NoOutput

\* the image gets one more entry
AddEntry(k) ==
    /\ output = NoOutput
    /\ Len(input.entries) < MaxInfoEntries
    /\ input' = [input EXCEPT !.entries = Append(@, EntryChoices[k])]
    /\ UNCHANGED <<output, connectionVars>>

\* the pointers the image holds, and the addresses at the ends of its RAM
\* window
imagePointers(img) ==
    {FLASH_BASE + PointersAt, RamEntries + PointersAt,
     RamEntries - 4, RamEntries, RamEntries + ImageSize - 4,
     RamEntries + ImageSize}
    \cup {entryPointer(img.entries[k], k) : k \in DOMAIN img.entries}
    \cup {valuePointer(img.entries[k], k) : k \in DOMAIN img.entries}

\* PicobootConnection.extractBinaryInfo(blocks), _readString at the string
\* address of every entry, and _remapAddress with the copy table of the
\* image at every pointer of the image
CallExtractBinaryInfo ==
    /\ output = NoOutput
    /\ \E blocks \in {imageBlocks(input)} :
         \E segments \in {_buildMemoryMap(blocks)} :
           output' =
             [info |-> extractBinaryInfo(blocks),
              strings |-> [k \in DOMAIN input.entries |->
                             _readString(segments,
                                 FLASH_BASE
                                 + stringOffset(input.entries[k], k))],
              remaps |-> [ptr \in imagePointers(input) |->
                            _remapAddress(ptr,
                                loadMappings(segments, FLASH_BASE + TableAt,
                                             0, <<>>))]]
    /\ UNCHANGED <<input, connectionVars>>

InfoNext ==
    \/ \E k \in DOMAIN EntryChoices : AddEntry(k)
    \/ CallExtractBinaryInfo

InfoSpec == InfoInit /\ [][InfoNext]_vars

(***************************************************************************)
(* PlanSpec: _computeEraseRanges applied to block lists.  Only the address *)
(* and the length of a block's payload matter to it; payloads are zeros.   *)
(***************************************************************************)
\* blocks a list may hold
MaxBlocks == 3

\* where a block may start, in bytes from the flash origin: on a sector
\* boundary, 96 bytes before the next one, one sector up, five sectors up
BlockOffsets == {0, 4000, FLASH_SECTOR_SIZE, 5 * FLASH_SECTOR_SIZE}

\* payload lengths: none, one byte, a page, a sector, three sectors
BlockLengths ==
    {0, 1, FLASH_PAGE_SIZE, FLASH_SECTOR_SIZE, 3 * FLASH_SECTOR_SIZE}

\* a block as its start and payload length
planBlock(off, len) == [off |-> off, len |-> len]

\* the block list the descriptors stand for
planBlocks(descs) ==
    [k \in DOMAIN descs |->
        [addr |-> FLASH_BASE + descs[k].off,
         data |-> [j \in 1..descs[k].len |-> 0],
         blockNo |-> k - 1, numBlocks |-> Len(descs)]]

PlanInit ==
    /\ device = "null"
    /\ attached = "attached"
    /\ listening = "no"
    /\ token = 1
    /\ built = <<>>
    /\ tasks = [id \in TaskIds |-> IdleTask]
    /\ faults = 0
    /\ picoboot = "null"
    /\ selectedUF2 = 0
    /\ isFlashing = FALSE
    /\ input = [blocks |-> <<>>]
    /\ output = NoOutput

\* the list gets one more block
AddBlock(off, len) ==
    /\ output = NoOutput
    /\ Len(input.blocks) < MaxBlocks
    /\ input' = [input EXCEPT !.blocks = Append(@, planBlock(off, len))]
    /\ UNCHANGED <<output, connectionVars>>

\* PicobootConnection._computeEraseRanges(blocks)
CallComputeEraseRanges ==
    /\ output = NoOutput
    /\ output' = [ranges |-> _computeEraseRanges(planBlocks(input.blocks))]
    /\ UNCHANGED <<input, connectionVars>>

PlanNext ==
    \/ \E off \in BlockOffsets, len \in BlockLengths : AddBlock(off, len)
    \/ CallComputeEraseRanges

PlanSpec == PlanInit /\ [][PlanNext]_vars

(***************************************************************************)
(* SelectSpec: the interface selection of connect() applied to             *)
(* configurations.  A configuration is put together interface by interface *)
(* from InterfaceChoices; an interface's number is its position, counted   *)
(* from 0.  The connection is a new one: its three fields are -1.          *)
(***************************************************************************)
\* interfaces a configuration may hold
MaxInterfaces == 2

endpoint(type, direction, endpointNumber) ==
    [type |-> type, direction |-> direction, endpointNumber |-> endpointNumber]

alternate(class, subclass, protocol, endpoints) ==
    [interfaceClass |-> class, interfaceSubclass |-> subclass,
     interfaceProtocol |-> protocol, endpoints |-> endpoints]

\* alternates[0] of the interfaces on offer:
\*   1, 2  vendor class with a bulk OUT and a bulk IN endpoint, the subclass
\*         and protocol 0 or 255
\*   3     vendor class with three bulk endpoints
\*   4     vendor class with two bulk IN endpoints
\*   5     vendor class with one bulk and one interrupt endpoint
\*   6     mass storage with a bulk OUT and a bulk IN endpoint
\*   7     HID with an interrupt endpoint
\*   8     vendor class without endpoints
InterfaceChoices ==
    << alternate(255, 0, 0,
                 <<endpoint("bulk", "out", 3), endpoint("bulk", "in", 4)>>),
       alternate(255, 255, 255,
                 <<endpoint("bulk", "out", 3), endpoint("bulk", "in", 4)>>),
       alternate(255, 0, 0,
                 <<endpoint("bulk", "out", 3), endpoint("bulk", "in", 4),
                   endpoint("bulk", "in", 5)>>),
       alternate(255, 0, 0,
                 <<endpoint("bulk", "in", 3), endpoint("bulk", "in", 4)>>),
       alternate(255, 0, 0,
                 <<endpoint("bulk", "in", 3),
                   endpoint("interrupt", "out", 4)>>),
       alternate(8, 6, 80,
                 <<endpoint("bulk", "out", 1), endpoint("bulk", "in", 2)>>),
       alternate(3, 0, 0, <<endpoint("interrupt", "in", 1)>>),
       alternate(255, 0, 0, <<>>) >>

\* _interfaceNumber, _endpointIn and _endpointOut after the constructor
NewConnection ==
    [interfaceNumber |-> -1, endpointIn |-> -1, endpointOut |-> -1]

isBulk(ep) == ep.type = "bulk"

\* alt.endpoints.filter(ep => ep.type === 'bulk')
bulkEndpoints(alt) == SelectSeq(alt.endpoints, isBulk)

\* the bulk endpoints of eps taken in order: the last IN and the last OUT
\* endpoint number stay in the fields
RECURSIVE assignEndpoints(_, _)
assignEndpoints(conn, eps) ==
    IF eps = <<>> THEN conn
    ELSE LET ep == Head(eps)
             c1 == IF ep.type = "bulk" /\ ep.direction = "in"
                   THEN [conn EXCEPT !.endpointIn = ep.endpointNumber]
                   ELSE conn
             c2 == IF ep.type = "bulk" /\ ep.direction = "out"
                   THEN [c1 EXCEPT !.endpointOut = ep.endpointNumber]
                   ELSE c1
         IN  assignEndpoints(c2, Tail(eps))

\* alt.interfaceClass === 0xFF and bulkEndpoints.length >= 2
isPicobootInterface(alt) ==
    alt.interfaceClass = 255 /\ Len(bulkEndpoints(alt)) >= 2

\* the position of the first interface from position i on that passes the
\* test, 0 when there is none
RECURSIVE findInterface(_, _)
findInterface(interfaces, i) ==
    IF i > Len(interfaces) THEN 0
    ELSE IF isPicobootInterface(interfaces[i].alternates[1]) THEN i
    ELSE findInterface(interfaces, i + 1)

\* the fallback of connect(): interface 1 if there are several, else 0
fallbackInterface(interfaces) ==
    LET fallbackIdx == IF Len(interfaces) > 1 THEN 1 ELSE 0
    IN  IF fallbackIdx + 1 \in DOMAIN interfaces
        THEN LET iface == interfaces[fallbackIdx + 1]
             IN  assignEndpoints(
                     [NewConnection EXCEPT
                        !.interfaceNumber = iface.interfaceNumber],
                     iface.alternates[1].endpoints)
        ELSE NewConnection

\* connect() from the search for the interface to claimInterface: the fields
\* of the connection, the interface claimed (-1 for none) and the error
selectInterface(interfaces) ==
    LET i == findInterface(interfaces, 1)
        conn == IF i # 0
                THEN assignEndpoints(
                         [NewConnection EXCEPT
                            !.interfaceNumber = interfaces[i].interfaceNumber],
                         bulkEndpoints(interfaces[i].alternates[1]))
                ELSE fallbackInterface(interfaces)
    IN  IF conn.endpointIn < 0 \/ conn.endpointOut < 0
        THEN [conn |-> conn, claimed |-> -1,
              err |-> "Could not find PICOBOOT bulk endpoints"]
        ELSE [conn |-> conn, claimed |-> conn.interfaceNumber,
              err |-> "none"]

SelectInit ==
    /\ device = "null"
    /\ attached = "attached"
    /\ listening = "no"
    /\ token = 1
    /\ built = <<>>
    /\ tasks = [id \in TaskIds |-> IdleTask]
    /\ faults = 0
    /\ picoboot = "null"
    /\ selectedUF2 = 0
    /\ isFlashing = FALSE
    /\ input = <<>>
    /\ output = NoOutput

\* the configuration gets one more interface
AddInterface(k) ==
    /\ output = NoOutput
    /\ Len(input) < MaxInterfaces
    /\ input' = Append(input, [interfaceNumber |-> Len(input),
                               alternates |-> <<InterfaceChoices[k]>>])
    /\ UNCHANGED <<output, connectionVars>>

\* connect() on a device with the configuration
CallSelectInterface ==
    /\ output = NoOutput
    /\ output' = [selected |-> selectInterface(input)]
    /\ UNCHANGED <<input, connectionVars>>

SelectNext ==
    \/ \E k \in DOMAIN InterfaceChoices : AddInterface(k)
    \/ CallSelectInterface

SelectSpec == SelectInit /\ [][SelectNext]_vars

(***************************************************************************)
(* ColorSpec: the colour transposition of PicoCTRDevice (webhid.js)        *)
(* applied to settings.  A state holds the configured color_order, the     *)
(* settings the conversions started from and, in output, the settings      *)
(* after the conversions applied so far, with their names.                 *)
(***************************************************************************)
\* the largest value of a colour channel
MaxChannel == 2
\* conversions applied one after the other
MaxConversions == 2

\* the strings 'rgb', 'grb', ... as character codes: r 114, g 103, b 98
ChR == 114
ChG == 103
ChB == 98

\* the values of config.settings.color_order: the six permutations, one of
\* them in upper case as well, and the field left out
ColorOrders ==
    { <<ChR, ChG, ChB>>, <<ChR, ChB, ChG>>, <<ChG, ChR, ChB>>,
      <<ChG, ChB, ChR>>, <<ChB, ChR, ChG>>, <<ChB, ChG, ChR>>,
      <<71, 66, 82>>, Null }

colourSettings(r, g, b) ==
    [rgb_color_r |-> r, rgb_color_g |-> g, rgb_color_b |-> b]

\* (this.config.settings.color_order || 'rgb').toLowerCase()
colorOrder(color_order) == toLowerCase(orElse(color_order, <<ChR, ChG, ChB>>))

\* channelMap = { r: 0, g: 1, b: 2 }, counted from 1
channelMap(ch) == CASE ch = ChR -> 1 [] ch = ChG -> 2 [] ch = ChB -> 3

\* the loop of _wireToDisplayColor from position i on
RECURSIVE wireToDisplayLoop(_, _, _, _)
wireToDisplayLoop(order, wire, display, i) ==
    IF i > 3 THEN display
    ELSE wireToDisplayLoop(order, wire,
             [display EXCEPT ![channelMap(order[i])] = wire[i]], i + 1)

\* _wireToDisplayColor filling the wire positions as _displayToWireColor does
_wireToDisplayColor_notInverted(color_order, settings) ==
    LET order == colorOrder(color_order)
        wire == <<settings.rgb_color_r, settings.rgb_color_g,
                  settings.rgb_color_b>>
    IN  IF order = <<ChR, ChG, ChB>> THEN settings
        ELSE colourSettings(wire[channelMap(order[1])],
                            wire[channelMap(order[2])],
                            wire[channelMap(order[3])])

\* _wireToDisplayColor(settings): the settings after the call
_wireToDisplayColor(color_order, settings) ==
    LET order == colorOrder(color_order)
        wire == <<settings.rgb_color_r, settings.rgb_color_g,
                  settings.rgb_color_b>>
        display == wireToDisplayLoop(order, wire, <<0, 0, 0>>, 1)
    IN  IF order = <<ChR, ChG, ChB>> THEN settings
        ELSE [settings EXCEPT !.rgb_color_r = display[1],
                              !.rgb_color_g = display[2],
                              !.rgb_color_b = display[3]]

\* _displayToWireColor(settings): the settings returned
_displayToWireColor(color_order, settings) ==
    LET order == colorOrder(color_order)
        display == <<settings.rgb_color_r, settings.rgb_color_g,
                     settings.rgb_color_b>>
        wire == [i \in 1..3 |-> display[channelMap(order[i])]]
    IN  IF order = <<ChR, ChG, ChB>> THEN settings
        ELSE [settings EXCEPT !.rgb_color_r = wire[1],
                              !.rgb_color_g = wire[2],
                              !.rgb_color_b = wire[3]]

ColorInit ==
    /\ device = "null"
    /\ attached = "attached"
    /\ listening = "no"
    /\ token = 1
    /\ built = <<>>
    /\ tasks = [id \in TaskIds |-> IdleTask]
    /\ faults = 0
    /\ picoboot = "null"
    /\ selectedUF2 = 0
    /\ isFlashing = FALSE
    /\ input \in {[color_order |-> o, settings |-> colourSettings(r, g, b)] :
                    o \in ColorOrders,
                    r \in 0..MaxChannel, g \in 0..MaxChannel,
                    b \in 0..MaxChannel}
    /\ output = [settings |-> input.settings, calls |-> <<>>]

\* _displayToWireColor on the settings as they are now
CallDisplayToWireColor ==
    /\ Len(output.calls) < MaxConversions
    /\ output' = [settings |-> _displayToWireColor(input.color_order,
                                                   output.settings),
                  calls |-> Append(output.calls, "toWire")]
    /\ UNCHANGED <<input, connectionVars>>

\* _wireToDisplayColor on the settings as they are now
CallWireToDisplayColor ==
    /\ Len(output.calls) < MaxConversions
    /\ output' = [settings |-> _wireToDisplayColor(input.color_order,
                                                   output.settings),
                  calls |-> Append(output.calls, "toDisplay")]
    /\ UNCHANGED <<input, connectionVars>>

ColorNext ==
    \/ CallDisplayToWireColor
    \/ CallWireToDisplayColor

ColorSpec == ColorInit /\ [][ColorNext]_vars

(***************************************************************************)
(* MemSpec: _findSegment and _readAt applied to memory maps.  A block list *)
(* is put together block by block, in any order of addresses, blocks       *)
(* adjacent, apart, overlapping or empty; _buildMemoryMap sorts it.  Byte  *)
(* j of block k of the list is 16 * k + j, so a byte read tells its block. *)
(***************************************************************************)
\* blocks a memory map may hold
MaxSegments == 3

\* where a block starts, from FLASH_BASE, and how long its data is
SegmentOffsets == {0, 2, 4}
SegmentLengths == {0, 2, 4}

\* the addresses looked up and read from, from FLASH_BASE, and the sizes read
ReadOffsets == 0..8
ReadSizes == {0, 1, 3, 6}

memoryBlocks(descs) ==
    [k \in DOMAIN descs |->
        [addr |-> FLASH_BASE + descs[k][1],
         data |-> [j \in 1..descs[k][2] |-> SlotSize * k + j - 1]]]

MemInit ==
    /\ device = "null"
    /\ attached = "attached"
    /\ listening = "no"
    /\ token = 1
    /\ built = <<>>
    /\ tasks = [id \in TaskIds |-> IdleTask]
    /\ faults = 0
    /\ picoboot = "null"
    /\ selectedUF2 = 0
    /\ isFlashing = FALSE
    /\ input = [blocks |-> <<>>]
    /\ output = NoOutput

\* the block list gets one more block
AddSegment(off, len) ==
    /\ output = NoOutput
    /\ Len(input.blocks) < MaxSegments
    /\ input' = [input EXCEPT !.blocks = Append(@, <<off, len>>)]
    /\ UNCHANGED <<output, connectionVars>>

\* _findSegment(segments, FLASH_BASE + off) on the memory map of the blocks:
\* whether a block is returned, and the block
CallFindSegment(off) ==
    /\ output = NoOutput
    /\ LET segments == _buildMemoryMap(memoryBlocks(input.blocks))
           k == _findSegment(segments, FLASH_BASE + off)
       IN  output' = [call |-> "_findSegment", addr |-> FLASH_BASE + off,
                      found |-> k # 0,
                      seg |-> IF k = 0 THEN [addr |-> 0, data |-> <<>>]
                              ELSE segments[k]]
    /\ UNCHANGED <<input, connectionVars>>

\* _readAt(segments, FLASH_BASE + off, size) on the memory map of the blocks
CallReadAt(off, size) ==
    /\ output = NoOutput
    /\ LET segments == _buildMemoryMap(memoryBlocks(input.blocks))
       IN  output' = [call |-> "_readAt", addr |-> FLASH_BASE + off,
                      size |-> size,
                      read |-> _readAt(segments, FLASH_BASE + off, size)]
    /\ UNCHANGED <<input, connectionVars>>

MemNext ==
    \/ \E off \in SegmentOffsets, len \in SegmentLengths : AddSegment(off, len)
    \/ \E off \in ReadOffsets : CallFindSegment(off)
    \/ \E off \in ReadOffsets, size \in ReadSizes : CallReadAt(off, size)

MemSpec == MemInit /\ [][MemNext]_vars

(***************************************************************************)
(* Properties.  A state shows, for each call, the _sendCommand call that   *)
(* is running (hist, cmd) and the one that ended last (last).  Every       *)
(* _sendCommand call is seen while it awaits a transfer, and is seen ended *)
(* unless the caller's next command fails at once for want of a device.    *)
(***************************************************************************)
ExchangeKinds == {"cmd", "data_in", "data_out", "ack_in", "ack_out"}
PayloadKinds == {"cmd", "data_in", "data_out"}

Slots == TaskIds \X {"run", "last"}

\* the _sendCommand call in slot s; id 0: there is none
CallAt(s) ==
    LET t == tasks[s[1]]
    IN  IF s[2] = "run"
        THEN [id |-> t.cmd.id, hist |-> t.hist, ended |-> FALSE,
              ok |-> FALSE, err |-> "none", attempts |-> t.attempt + 1]
        ELSE [id |-> t.last.id, hist |-> t.last.hist, ended |-> TRUE,
              ok |-> t.last.ok, err |-> t.last.err,
              attempts |-> t.last.attempts]

\* the indexes of h whose transfer is of a kind in K and settled with a
\* result in R
Where(h, K, R) == {i \in DOMAIN h : h[i].k \in K /\ h[i].res \in R}

Kinds(h) == [i \in DOMAIN h |-> h[i].k]

\* the place of a command in the order of flashUF2
rank(id) ==
    IF id = CMD_EXCLUSIVE_ACCESS THEN 1
    ELSE IF id = CMD_EXIT_XIP THEN 2
    ELSE IF id = CMD_FLASH_ERASE THEN 3
    ELSE IF id = CMD_WRITE THEN 4
    ELSE 5

\* the number of 256-byte chunks the blocks of image img are written in
writeChunks(img) ==
    LET blocks == Sorted[img]
        RECURSIVE sum(_)
        sum(k) == IF k = 0 THEN 0
                  ELSE sum(k - 1)
                       + (Len(blocks[k].data) + FLASH_PAGE_SIZE - 1)
                         \div FLASH_PAGE_SIZE
    IN  sum(Len(blocks))

\* the events of log L before index j that are event ev of command id
Before(L, j, ev, id) ==
    {i \in 1..(j - 1) : L[i].e = ev /\ L[i].id = id}

\* C1: in every run of flashUF2 the commands are issued in the order
\* EXCLUSIVE_ACCESS(acquire), EXIT_XIP, every FLASH_ERASE, every WRITE, REBOOT;
\* an erase or write is issued only after acquire and EXIT_XIP completed, a
\* write only after the last erase completed, and 'done' is reported only
\* after REBOOT was issued.
C1_FlashCommandOrder ==
    LET t == tasks["flash"]
        L == t.log
    IN  \A j \in DOMAIN L :
            /\ L[j].e = "issue" =>
                 /\ \A i \in 1..(j - 1) :
                        L[i].e = "issue" =>
                          /\ rank(L[i].id) <= rank(L[j].id)
                          /\ L[j].id \in {CMD_EXCLUSIVE_ACCESS, CMD_EXIT_XIP,
                                          CMD_REBOOT}
                             => rank(L[i].id) < rank(L[j].id)
                 /\ L[j].id = CMD_EXCLUSIVE_ACCESS => L[j].args = <<1>>
                 /\ L[j].id # CMD_EXCLUSIVE_ACCESS
                    => Before(L, j, "ok", CMD_EXCLUSIVE_ACCESS) # {}
                 /\ L[j].id \in {CMD_FLASH_ERASE, CMD_WRITE, CMD_REBOOT}
                    => Before(L, j, "ok", CMD_EXIT_XIP) # {}
                 /\ L[j].id \in {CMD_WRITE, CMD_REBOOT}
                    => /\ Cardinality(Before(L, j, "ok", CMD_FLASH_ERASE))
                          = Len(Ranges[t.img])
                       /\ Cardinality(Before(L, j, "issue", CMD_FLASH_ERASE))
                          = Len(Ranges[t.img])
                 /\ L[j].id = CMD_REBOOT
                    => Cardinality(Before(L, j, "ok", CMD_WRITE))
                       = writeChunks(t.img)
            /\ (L[j].e = "progress" /\ L[j].phase = "done")
               => \E i \in 1..(j - 1) :
                      L[i].e = "issue" /\ L[i].id = CMD_REBOOT

\* a flash of the image of two blocks ran to 'done', its REBOOT acknowledged
C1_Witness ==
    /\ tasks["flash"].pc = "done"
    /\ tasks["flash"].img = 2
    /\ tasks["flash"].last.id = CMD_REBOOT
    /\ tasks["flash"].last.ok

\* C2: at no time are two protocol exchanges in flight on one connection:
\* the background read of the installed firmware and a flash the user starts
\* never both await a transfer of an exchange.
C2_OneExchangeInFlight ==
    Cardinality({id \in TaskIds : tasks[id].wait \in ExchangeKinds}) <= 1

\* C3: when parseUF2 fails, or finds no block, flashUF2 builds and sends no
\* command frame and reports the error.
C3_NoCommandOnBadImage ==
    LET t == tasks["flash"]
        bad == ~Parsed[t.img].ok \/ Len(Parsed[t.img].blocks) = 0
    IN  (t.pc # "idle" /\ bad) =>
            /\ t.pc = "error"
            /\ t.err = IF Parsed[t.img].ok THEN "no data blocks"
                       ELSE Parsed[t.img].err
            /\ built = <<>> /\ token = 1
            /\ t.hist = <<>> /\ t.wait = "none" /\ t.last = NoCall
            /\ \A i \in DOMAIN t.log : t.log[i].e = "progress"
            /\ t.log[Len(t.log)].phase = "error"

\* flashUF2 was called with the image whose first block has a bad end magic
C3_Witness ==
    /\ tasks["flash"].pc = "error"
    /\ tasks["flash"].img = 4
    /\ tasks["flash"].err = "bad end magic"

\* C4: _sendCommand makes at most 3 attempts; the frame of every attempt
\* after the first is sent right after clearHalt IN, clearHalt OUT and
\* IF_RESET, in that order, which follow the stalled transfer of the attempt
\* before.
C4_RetryAfterReset ==
    \A s \in Slots :
        LET c == CallAt(s)
            h == c.hist
        IN  /\ c.attempts <= 3
            /\ Cardinality(Where(h, {"cmd"}, AllOutcomes \cup {"pending"})) <= 3
            /\ \A i \in DOMAIN h :
                   /\ h[i].att + 1 <= 3
                   /\ (h[i].k = "cmd" /\ h[i].att > 0) =>
                        /\ i > 4
                        /\ h[i - 3].k = "halt_in"
                        /\ h[i - 2].k = "halt_out"
                        /\ h[i - 1].k = "if_reset"
                        /\ h[i - 4].k \in PayloadKinds
                        /\ h[i - 4].res = "stall"
                        /\ h[i - 4].att = h[i].att - 1

\* the frame of a third attempt was sent
C4_Witness ==
    \E s \in Slots : \E i \in DOMAIN CallAt(s).hist :
        CallAt(s).hist[i].k = "cmd" /\ CallAt(s).hist[i].att = 2

\* C5: the tokens of the frames built on one connection start at 1 and
\* strictly increase, across commands and across retries; no two frames that
\* were sent carry the same token.
C5_TokensIncrease ==
    LET frames(s) == Where(CallAt(s).hist, {"cmd"}, AllOutcomes \cup {"pending"})
        tokens(s) == {CallAt(s).hist[i].frame.token : i \in frames(s)}
    IN  /\ built # <<>> => built[1] = 1
        /\ \A i \in 1..(Len(built) - 1) : built[i] < built[i + 1]
        /\ built # <<>> => built[Len(built)] < token
        /\ \A s \in Slots :
               /\ tokens(s) \subseteq {built[n] : n \in DOMAIN built}
               /\ \A i, j \in frames(s) :
                      i < j => CallAt(s).hist[i].frame.token
                               < CallAt(s).hist[j].frame.token
               /\ \A s2 \in Slots \ {s} : tokens(s) \cap tokens(s2) = {}

\* an erase is in its second attempt, after the frames of two other commands
C5_Witness ==
    /\ tasks["flash"].pc = "erase"
    /\ tasks["flash"].attempt = 1
    /\ tasks["flash"].wait = "cmd"
    /\ Len(built) >= 4

\* the calls that ended with exactly one transfer among kinds K stalled and
\* every other transfer of the call submitted and acknowledged ok
OneStallOnly(K) ==
    {s \in Slots :
        LET c == CallAt(s)
        IN  /\ c.ended /\ c.id # 0
            /\ c.err # "nodevice"
            /\ Cardinality(Where(c.hist, K, {"stall"})) = 1
            /\ \A i \in DOMAIN c.hist :
                   c.hist[i].res = "ok"
                   \/ (c.hist[i].k \in K /\ c.hist[i].res = "stall")}

\* the call in slot s succeeded after one reset and one retry, the frame of
\* the retry carrying the greater token
OneResetOneRetry(s) ==
    LET c == CallAt(s)
        h == c.hist
        frames == Where(h, {"cmd"}, AllOutcomes)
    IN  /\ c.ok
        /\ c.attempts = 2
        /\ Cardinality(frames) = 2
        /\ Cardinality(Where(h, {"halt_in"}, AllOutcomes)) = 1
        /\ Cardinality(Where(h, {"halt_out"}, AllOutcomes)) = 1
        /\ Cardinality(Where(h, {"if_reset"}, AllOutcomes)) = 1
        /\ \A i, j \in frames : i < j => h[i].frame.token < h[j].frame.token

ThirdStall ==
    {s \in Slots :
        \E i \in DOMAIN CallAt(s).hist :
            /\ CallAt(s).hist[i].k \in PayloadKinds
            /\ CallAt(s).hist[i].att = 2
            /\ CallAt(s).hist[i].res = "stall"}

\* the call in slot s failed with the stall of its third attempt, which was
\* its last transfer
FailedAtThird(s) ==
    LET c == CallAt(s)
    IN  /\ c.ended /\ ~c.ok /\ c.err = "stall"
        /\ c.attempts = 3
        /\ c.hist[Len(c.hist)].k \in PayloadKinds
        /\ c.hist[Len(c.hist)].res = "stall"
        /\ Cardinality(Where(c.hist, {"cmd"}, AllOutcomes)) = 3

\* flashUF2 ended in error with the command that ended last: it reported no
\* 'done', counted nothing for the command and issued no command after it
StoppedAtFailure(t) ==
    /\ t.pc = "error" /\ t.err = t.last.err
    /\ t.wait = "none" /\ t.cmd = NoCmd /\ t.hist = <<>>
    /\ \A i \in DOMAIN t.log :
           ~(t.log[i].e = "progress" /\ t.log[i].phase = "done")
    /\ t.log[Len(t.log)].e = "progress" /\ t.log[Len(t.log)].phase = "error"
    /\ t.log[Len(t.log) - 1].e = "fail" /\ t.log[Len(t.log) - 1].id = t.last.id

\* C7, amended: if three consecutive attempts of one command stall,
\* _sendCommand fails after the third attempt without a fourth; if the
\* command is not REBOOT, flashUF2 does not count the operation as completed
\* and ends in error; in either case the flash sends no further command.
C7_ThreeStallsFail ==
    \A s \in ThirdStall :
        /\ FailedAtThird(s)
        /\ s[1] = "flash" =>
             /\ tasks["flash"].wait = "none"
             /\ tasks["flash"].cmd = NoCmd
             /\ tasks["flash"].pc \in {"error", "done"}
             /\ CallAt(s).id # CMD_REBOOT => StoppedAtFailure(tasks["flash"])

\* an erase failed with its third stall and flashUF2 ended in error
C7_Witness ==
    /\ <<"flash", "last">> \in ThirdStall
    /\ tasks["flash"].last.id = CMD_FLASH_ERASE
    /\ tasks["flash"].pc = "error"

\* C7 as stated: after three stalled attempts the operation is never counted
\* as completed, whatever the command.
C7_AsStated ==
    \A s \in ThirdStall :
        /\ FailedAtThird(s)
        /\ s[1] = "flash" => StoppedAtFailure(tasks["flash"])

\* C8: an attempt that fails with an error other than a stall is not
\* retried: the failed transfer is the last of the call, _sendCommand throws
\* that error, and when no attempt stalled before it the call made exactly
\* one attempt and no interface reset.
C8_NoRetryUnlessStall ==
    \A s \in Slots :
        LET c == CallAt(s)
            h == c.hist
        IN  /\ \A i \in Where(h, PayloadKinds, {"babble", "reject"}) :
                   /\ c.ended /\ ~c.ok
                   /\ c.err = h[i].res
                   /\ i = Len(h)
                   /\ c.attempts = h[i].att + 1
            /\ (c.ended /\ c.err = "nodevice") => ~c.ok
            /\ (c.ended /\ c.id # 0 /\ ~c.ok /\ c.err # "stall"
                /\ Where(h, PayloadKinds, {"stall"}) = {}) =>
                   /\ c.attempts = 1
                   /\ Where(h, {"halt_in", "halt_out", "if_reset"},
                            AllOutcomes \cup {"pending"}) = {}
                   /\ Cardinality(Where(h, {"cmd"}, AllOutcomes)) <= 1

\* an erase failed at its first attempt with a babble status
C8_Witness ==
    /\ tasks["flash"].last.id = CMD_FLASH_ERASE
    /\ tasks["flash"].last.err = "babble"
    /\ tasks["flash"].last.attempts = 1
    /\ Kinds(tasks["flash"].last.hist) = <<"cmd">>

\* C9: an attempt is the 32-byte frame on bulk OUT, then the data phase
\* (bulk IN for READ, bulk OUT for WRITE, none otherwise), then the
\* acknowledgment opposite to it (bulk OUT for READ, bulk IN otherwise); each
\* transfer starts only when the one before it has completed ok.
C9_ExchangeShape ==
    \A s \in Slots :
        LET c == CallAt(s)
            h == c.hist
            follows(i, kind) ==
                /\ i > 1
                /\ h[i - 1].k = kind
                /\ h[i - 1].res = "ok"
                /\ h[i - 1].att = h[i].att
        IN  \A i \in DOMAIN h :
                /\ h[i].k = "cmd" =>
                     /\ h[i].frame.size = 32
                     /\ h[i].frame.cmdId = c.id
                     /\ i = 1 \/ h[i - 1].k = "if_reset"
                /\ h[i].k = "data_in" => c.id = CMD_READ /\ follows(i, "cmd")
                /\ h[i].k = "data_out" => c.id = CMD_WRITE /\ follows(i, "cmd")
                /\ h[i].k = "ack_out" =>
                     c.id = CMD_READ /\ follows(i, "data_in") /\ i = Len(h)
                /\ h[i].k = "ack_in" =>
                     /\ c.id # CMD_READ
                     /\ follows(i, IF c.id = CMD_WRITE THEN "data_out"
                                   ELSE "cmd")
                     /\ i = Len(h)

\* a READ exchanged its frame, its data and its acknowledgment
C9_Witness ==
    /\ tasks["read"].last.id = CMD_READ
    /\ tasks["read"].last.ok
    /\ Kinds(tasks["read"].last.hist) = <<"cmd", "data_in", "ack_out">>
    /\ \A i \in DOMAIN tasks["read"].last.hist :
           tasks["read"].last.hist[i].res = "ok"

\* C10: reboot() never rejects: once the _sendCommand call of REBOOT has
\* ended, however it ended, flashUF2 has reported 'done'; flashUF2 never
\* ends in error with REBOOT as its last command.
C10_RebootSwallowsErrors ==
    LET t == tasks["flash"]
    IN  /\ t.last.id = CMD_REBOOT =>
             /\ t.pc = "done" /\ t.err = "none" /\ t.wait = "none"
             /\ t.log[Len(t.log)].e = "progress"
             /\ t.log[Len(t.log)].phase = "done"
        /\ t.pc = "error" => t.last.id # CMD_REBOOT
        /\ t.pc = "reboot" => t.cmd.id = CMD_REBOOT

\* REBOOT failed with its third stall and flashUF2 reported 'done'
C10_Witness ==
    /\ tasks["flash"].pc = "done"
    /\ tasks["flash"].last.id = CMD_REBOOT
    /\ ~tasks["flash"].last.ok
    /\ tasks["flash"].last.err = "stall"

\* flashUF2 is between its first command and its end
FlashInProgress ==
    tasks["flash"].pc \in {"acquire", "exitxip", "erase", "write", "reboot"}

C12_ReleaseBeforeError ==
    LET L == tasks["flash"].log
    IN  \A j \in DOMAIN L :
            (/\ L[j].e = "progress" /\ L[j].phase = "error"
             /\ Before(L, j, "ok", CMD_EXCLUSIVE_ACCESS) # {})
            => \E i \in Before(L, j, "issue", CMD_EXCLUSIVE_ACCESS) :
                   L[i].args = <<0>>

Parsing == output # NoOutput

\* what is wrong with the magic words of record r, in the order of the tests
magicFault(r) ==
    IF r.m0 # UF2_MAGIC_START0 THEN "bad magic0"
    ELSE IF r.m1 # UF2_MAGIC_START1 THEN "bad magic1"
    ELSE IF r.mEnd # UF2_MAGIC_END THEN "bad end magic"
    ELSE "none"

BadMagicAt(recs) == {k \in DOMAIN recs : magicFault(recs[k]) # "none"}

FirstBadMagic(recs) ==
    CHOOSE k \in BadMagicAt(recs) : \A j \in BadMagicAt(recs) : k <= j

SizeOk(file) == file.tail % UF2_BLOCK_SIZE = 0

\* the family id the loop holds after record 0 of recs
capturedFamily(recs) ==
    IF HasFamilyFlag(numWord(recs[1].flags)) THEN recs[1].family ELSE ZeroWord

\* what makes the loop of parseUF2 throw at record k of recs
recordFault(recs, k) ==
    IF magicFault(recs[k]) # "none" THEN magicFault(recs[k])
    ELSE IF /\ k > 1
            /\ HasFamilyFlag(numWord(recs[k].flags))
            /\ recs[k].family # capturedFamily(recs)
    THEN "inconsistent family ID"
    ELSE "none"

FaultyAt(recs) == {k \in DOMAIN recs : recordFault(recs, k) # "none"}

FirstFaulty(recs) ==
    CHOOSE k \in FaultyAt(recs) : \A j \in FaultyAt(recs) : k <= j

Flagged(recs) == {k \in DOMAIN recs : HasFamilyFlag(numWord(recs[k].flags))}

\* C15: parseUF2 succeeds only if the records whose family-present flag is
\* set all carry one family id, and that id is one of the four allow-listed
\* family ids.
C15_FamilyAllowListed ==
    Parsing /\ output.ok
      => \A k \in Flagged(input.recs) :
             /\ input.recs[k].family \in validFamilies
             /\ \A j \in Flagged(input.recs) :
                    input.recs[j].family = input.recs[k].family

\* C16: every block returned by parseUF2 holds at most 476 bytes, all of
\* them bytes of the payload area of its own record, whatever payload length
\* the record declares.
C16_PayloadWithinRecord ==
    Parsing /\ output.ok
      => \A k \in DOMAIN output.blocks :
             LET data == output.blocks[k].data
                 area == payloadArea(input.recs[k])
             IN  /\ Len(data) <= Len(area)
                 /\ data = SubSeq(area, 1, Len(data))

PayloadAreaSize == UF2_BLOCK_SIZE - UF2_PAYLOAD_OFFSET - 4

\* a well-formed container: whole records, magic words right, declared
\* payload lengths within the payload area, one allow-listed family id
ValidContainer(file) ==
    /\ SizeOk(file)
    /\ BadMagicAt(file.recs) = {}
    /\ \A k \in DOMAIN file.recs : file.recs[k].size <= PayloadAreaSize
    /\ \A k \in Flagged(file.recs) :
           /\ file.recs[k].family \in validFamilies
           /\ \A j \in Flagged(file.recs) :
                  file.recs[j].family = file.recs[k].family

\* the address-to-bytes mapping the records of a file encode
recordMapping(recs) ==
    [k \in DOMAIN recs |->
        [addr |-> recs[k].addr,
         data |-> SubSeq(payloadArea(recs[k]), 1, recs[k].size)]]

\* the address-to-bytes mapping of a block list
blockMapping(blocks) ==
    [k \in DOMAIN blocks |-> [addr |-> blocks[k].addr,
                              data |-> blocks[k].data]]

\* one record holding block b: its payload, padded with zeros to the area
blockRecord(b, familyId) ==
    wordBytes(UF2_MAGIC_START0) \o wordBytes(UF2_MAGIC_START1)
    \o wordBytes(numWord(IF familyId = ZeroWord THEN 0 ELSE UF2_FLAG_FAMILY))
    \o wordBytes(numWord(b.addr)) \o wordBytes(numWord(Len(b.data)))
    \o wordBytes(numWord(b.blockNo)) \o wordBytes(numWord(b.numBlocks))
    \o wordBytes(familyId)
    \o b.data \o [j \in 1..(PayloadAreaSize - Len(b.data)) |-> 0]
    \o wordBytes(UF2_MAGIC_END)

RECURSIVE reencode(_, _, _)
\* a container holding blocks[k..], one record per block
reencode(blocks, familyId, k) ==
    IF k > Len(blocks) THEN <<>>
    ELSE blockRecord(blocks[k], familyId) \o reencode(blocks, familyId, k + 1)

\* C17: for a valid container that parseUF2 accepts, block i has record i's
\* target address and exactly the first payloadSize bytes of record i's
\* payload area; encoding the returned blocks as a container and parsing it
\* again gives the same blocks.
C17_ParseRoundTrip ==
    Parsing /\ ValidContainer(input) /\ output.ok
      => /\ blockMapping(output.blocks) = recordMapping(input.recs)
         /\ LET again == parseUF2(reencode(output.blocks, output.familyId, 1))
            IN  /\ again.ok
                /\ again.blocks = output.blocks
                /\ again.familyId = output.familyId

\* a full payload area and a partly used one, in one file
C17_Witness ==
    /\ Parsing /\ ValidContainer(input) /\ output.ok
    /\ Len(output.blocks) = 2
    /\ Len(output.blocks[1].data) = PayloadAreaSize
    /\ Len(output.blocks[2].data) = FLASH_PAGE_SIZE
    /\ output.blocks[1].addr # output.blocks[2].addr

(***************************************************************************)
(* Properties of _computeEraseRanges, over the block lists of PlanSpec.    *)
(***************************************************************************)
Planned == output # NoOutput

sectorOf(a) == (a \div FLASH_SECTOR_SIZE) * FLASH_SECTOR_SIZE

\* the sectors that contain a payload byte of block b
payloadSectors(b) ==
    IF Len(b.data) = 0 THEN {}
    ELSE {sectorOf(b.addr) + k * FLASH_SECTOR_SIZE :
            k \in 0..((sectorOf(b.addr + Len(b.data) - 1) - sectorOf(b.addr))
                      \div FLASH_SECTOR_SIZE)}

\* the sectors a range covers
rangeSectors(r) ==
    {r.addr + k * FLASH_SECTOR_SIZE :
       k \in 0..((r.length \div FLASH_SECTOR_SIZE) - 1)}

\* C18: the ranges of _computeEraseRanges do not overlap, start and length
\* are multiples of 4096, and together they cover exactly the sectors that
\* contain a payload byte of some block.
C18_ExactSectorCover ==
    Planned =>
      LET ranges == output.ranges
          blocks == planBlocks(input.blocks)
      IN  /\ \A i \in DOMAIN ranges :
                 /\ ranges[i].addr % FLASH_SECTOR_SIZE = 0
                 /\ ranges[i].length % FLASH_SECTOR_SIZE = 0
                 /\ ranges[i].length > 0
          /\ \A i, j \in DOMAIN ranges :
                 i # j => rangeSectors(ranges[i]) \cap rangeSectors(ranges[j])
                          = {}
          /\ UNION {rangeSectors(ranges[i]) : i \in DOMAIN ranges}
             = UNION {payloadSectors(blocks[k]) : k \in DOMAIN blocks}

\* the maximal runs of contiguous sectors in S, by their first sector
runStarts(S) == {s \in S : s - FLASH_SECTOR_SIZE \notin S}

\* C19: the ranges of _computeEraseRanges come in ascending address order
\* and no two of them overlap or touch, so there is one range for each
\* maximal run of contiguous sectors among the sectors collected from the
\* blocks, and it covers that run.
C19_MaximalAscendingRanges ==
    Planned =>
      LET ranges == output.ranges
          blocks == planBlocks(input.blocks)
          sectors == UNION {blockSectors(blocks[k]) : k \in DOMAIN blocks}
      IN  /\ \A i \in 1..(Len(ranges) - 1) :
                 ranges[i].addr + ranges[i].length < ranges[i + 1].addr
          /\ Len(ranges) = Cardinality(runStarts(sectors))
          /\ {ranges[i].addr : i \in DOMAIN ranges} = runStarts(sectors)
          /\ UNION {rangeSectors(ranges[i]) : i \in DOMAIN ranges} = sectors

\* two regions of three sectors each, two sectors apart: two ranges
C19_Witness ==
    /\ Planned
    /\ Len(input.blocks) = 2
    /\ input.blocks[1].off = 5 * FLASH_SECTOR_SIZE
    /\ input.blocks[2].off = 0
    /\ \A k \in 1..2 : input.blocks[k].len = 3 * FLASH_SECTOR_SIZE
    /\ output.ranges
       = << [addr |-> FLASH_BASE, length |-> 3 * FLASH_SECTOR_SIZE],
            [addr |-> FLASH_BASE + 5 * FLASH_SECTOR_SIZE,
             length |-> 3 * FLASH_SECTOR_SIZE] >>

(***************************************************************************)
(* Properties of the write phase of flashUF2.                              *)
(***************************************************************************)
\* the WRITE commands flashUF2 has issued, as positions of its log
WritesIssued ==
    LET L == tasks["flash"].log
    IN  {j \in DOMAIN L : L[j].e = "issue" /\ L[j].id = CMD_WRITE}

\* the block of the image that the byte at address a belongs to
blockAt(blocks, a) ==
    CHOOSE k \in DOMAIN blocks :
        blocks[k].addr <= a /\ a < blocks[k].addr + Len(blocks[k].data)

\* C20: every WRITE of flashUF2 carries at most 256 bytes of one block; the
\* WRITEs of a block follow each other at offsets 0, 256, ... up to the end
\* of its payload, and the next WRITE starts a block at a higher address.
C20_WritesInOrder ==
    LET t == tasks["flash"]
        L == t.log
        blocks == Parsed[t.img].blocks
        b(j) == blocks[blockAt(blocks, L[j].args[1])]
        off(j) == L[j].args[1] - b(j).addr
    IN  /\ \A j \in WritesIssued :
               /\ L[j].args[2] <= FLASH_PAGE_SIZE
               /\ L[j].args[2] > 0
               /\ off(j) % FLASH_PAGE_SIZE = 0
               /\ off(j) + L[j].args[2] <= Len(b(j).data)
               /\ L[j].args[2] < FLASH_PAGE_SIZE
                  => off(j) + L[j].args[2] = Len(b(j).data)
        /\ \A i, j \in WritesIssued :
               (i < j /\ \A x \in WritesIssued : ~(i < x /\ x < j))
               => \/ /\ b(j) = b(i)
                     /\ off(j) = off(i) + FLASH_PAGE_SIZE
                  \/ /\ b(j).addr > b(i).addr
                     /\ off(j) = 0
                     /\ off(i) + L[i].args[2] = Len(b(i).data)
        /\ \A j \in WritesIssued :
               (\A i \in WritesIssued : j <= i)
               => /\ off(j) = 0
                  /\ \A k \in DOMAIN blocks :
                         Len(blocks[k].data) > 0 => b(j).addr <= blocks[k].addr

\* the image stored in descending address order, written to its end: two
\* chunks of the block at the flash origin, then the block three sectors up
C20_Witness ==
    /\ tasks["flash"].img = 2
    /\ tasks["flash"].pc = "done"
    /\ Cardinality(WritesIssued) = writeChunks(2)
    /\ Parsed[2].blocks[1].addr > Parsed[2].blocks[2].addr

\* C21: every WRITE command flashUF2 issues targets a page-aligned address,
\* whatever image parseUF2 accepted.
C21_WritesPageAligned ==
    LET L == tasks["flash"].log
    IN  \A j \in WritesIssued : L[j].args[1] % FLASH_PAGE_SIZE = 0

(***************************************************************************)
(* Properties of the progress events of flashUF2.                          *)
(***************************************************************************)
phaseRank(phase) ==
    IF phase = "parse" THEN 1
    ELSE IF phase = "erase" THEN 2
    ELSE IF phase = "write" THEN 3
    ELSE IF phase = "reboot" THEN 4
    ELSE IF phase = "done" THEN 5
    ELSE 6

\* the progress events flashUF2 has emitted, as positions of its log
ProgressAt ==
    LET L == tasks["flash"].log
    IN  {j \in DOMAIN L : L[j].e = "progress"}

\* C28: in every run of flashUF2 the progress events come phase by phase in
\* the order parse, erase, write, reboot, done, no event of a phase follows
\* an event of a later phase, and within a phase the current value never
\* decreases and never exceeds the total; a failing run reports a prefix of
\* that order and then 'error', after which nothing is reported.
C28_ProgressPhaseOrder ==
    LET L == tasks["flash"].log
    IN  \A i, j \in ProgressAt :
            i < j =>
              /\ L[i].phase # "error"
              /\ L[i].phase # "done"
              /\ L[j].phase # "error" =>
                   /\ phaseRank(L[i].phase) <= phaseRank(L[j].phase)
                   /\ L[i].phase = L[j].phase => L[i].cur <= L[j].cur
              /\ L[i].cur <= L[i].tot
              /\ L[j].phase \in {"erase", "write", "reboot", "done"}
                 => \E k \in ProgressAt :
                        /\ k < j
                        /\ phaseRank(L[k].phase)
                           \in {phaseRank(L[j].phase) - 1, phaseRank(L[j].phase)}

\* a two-block image flashed to the end: every phase was reported, the
\* write phase with the values 0, 1, 2 of 2
C28_Witness ==
    LET L == tasks["flash"].log
    IN  /\ tasks["flash"].pc = "done"
        /\ tasks["flash"].img = 2
        /\ \A p \in {"parse", "erase", "write", "reboot", "done"} :
               \E j \in ProgressAt : L[j].phase = p
        /\ \A c \in 0..2 :
               \E j \in ProgressAt : L[j].phase = "write" /\ L[j].cur = c

(***************************************************************************)
(* Properties of extractBinaryInfo, over the images of InfoSpec.  What is  *)
(* expected is computed from the description of the image, not its bytes.  *)
(***************************************************************************)
Extracted == output # NoOutput

\* the header holds a 5-word window within the 64 words scanned, with both
\* markers, biEnd > biStart and both 4-byte aligned
ValidWindow(img) ==
    /\ img.header.kind \in {"pair", "ramPair"}
    /\ img.header.word + 4 < MAX_WORDS
    /\ Len(img.entries) > 0

\* the entries of the image that extractBinaryInfo can read: the entry and
\* 512 bytes from its string pointer are in the memory map
Resolved(img) ==
    {k \in DOMAIN img.entries :
        /\ img.entries[k].at \in {"flash", "ram"}
        /\ img.entries[k].str \in {"flash", "ram"}}

\* the entries of the image whose pointer or string pointer leads nowhere
Unresolved(img) ==
    {k \in DOMAIN img.entries :
        img.entries[k].at = "lost" \/ img.entries[k].str = "lost"}

\* C22: without a valid 5-word window in the first 64 words from base,
\* extractBinaryInfo returns board, variant, version and git null and
\* isPicoCTR false, whatever entries the image holds; so it does when the
\* window starts with the start marker but its 5th word is not the end marker.
C22_NoMarkerPairNullInfo ==
    Extracted /\ ~ValidWindow(input) => output.info = NullInfo

\* the start marker without the end marker, before a readable board entry
C22_Witness ==
    /\ Extracted
    /\ input.header.kind = "startOnly"
    /\ Resolved(input) # {}
    /\ \E k \in Resolved(input) : input.entries[k].text = TextBoardAGC
    /\ output.info = NullInfo

\* the texts of the readable entries with the given id, in table order
RECURSIVE textsFrom(_, _, _)
textsFrom(img, id, k) ==
    IF k > Len(img.entries) THEN <<>>
    ELSE (IF k \in Resolved(img) /\ img.entries[k].id = id
          THEN <<img.entries[k].text>> ELSE <<>>)
         \o textsFrom(img, id, k + 1)

lastOr(texts, none) == IF texts = <<>> THEN none ELSE texts[Len(texts)]

\* what the visit collects when exactly the readable entries are collected
expectedEntries(img) ==
    [programName |-> lastOr(textsFrom(img, BINARY_INFO_ID_RP_PROGRAM_NAME, 1), Null),
     programVersion |-> lastOr(textsFrom(img, BINARY_INFO_ID_RP_PROGRAM_VERSION_STRING, 1), Null),
     picoBoard |-> lastOr(textsFrom(img, BINARY_INFO_ID_RP_PICO_BOARD, 1), Null),
     sdkVersion |-> lastOr(textsFrom(img, BINARY_INFO_ID_RP_SDK_VERSION, 1), Null),
     programFeatures |-> textsFrom(img, BINARY_INFO_ID_RP_PROGRAM_FEATURE, 1)]

\* C23: extractBinaryInfo returns a result for every image; an entry whose
\* pointer, string pointer or copy-table window leads to an address that is
\* not in the memory map is skipped, and the result is the one made from the
\* strings of all the entries that can be read.
C23_UnresolvedEntriesSkipped ==
    Extracted /\ ValidWindow(input)
      => output.info = binaryInfoResult(expectedEntries(input))

\* an entry whose pointer leads nowhere, then a readable board feature
C23_Witness ==
    /\ Extracted /\ ValidWindow(input)
    /\ Len(input.entries) = 2
    /\ 1 \in Unresolved(input)
    /\ input.entries[2].text = TextBoardAGC /\ 2 \in Resolved(input)
    /\ output.info.board = <<65, 71, 67, 45, 49>>

\* C24: the string read at a value pointer is the bytes before the first
\* zero byte, and the read succeeds whenever all bytes up to and including
\* that zero byte are in the memory map.
C24_StringReadToTerminator ==
    Extracted =>
      \A k \in DOMAIN input.entries :
          input.entries[k].str \in {"flash", "tail"}
          => output.strings[k] = input.entries[k].text

\* the readable feature entries of the image whose text starts with prefix
WithPrefix(img, prefix) ==
    {k \in Resolved(img) :
        /\ img.entries[k].id = BINARY_INFO_ID_RP_PROGRAM_FEATURE
        /\ Len(img.entries[k].text) >= Len(prefix)
        /\ \A j \in DOMAIN prefix : img.entries[k].text[j] = prefix[j]}

\* the text of string str from its first character that is not a blank
unblanked(str) ==
    LET inked == {j \in DOMAIN str : str[j] # 32}
    IN  IF inked = {} THEN <<>>
        ELSE LET first == CHOOSE j \in inked : \A i \in inked : j <= i
             IN  [j \in 1..(Len(str) - first + 1) |-> str[first + j - 1]]

\* the value of the first feature with the prefix, in table order: what
\* follows the prefix, without leading blanks; Null when there is none
firstValue(img, prefix) ==
    LET S == WithPrefix(img, prefix)
    IN  IF S = {} THEN Null
        ELSE LET k == CHOOSE k \in S : \A j \in S : k <= j
                 text == img.entries[k].text
             IN  unblanked([j \in 1..(Len(text) - Len(prefix)) |->
                               text[Len(prefix) + j]])

\* the text of the last readable board-name (PICO_BOARD) entry, or Null
boardName(img) ==
    LET S == {k \in Resolved(img) :
                img.entries[k].id = BINARY_INFO_ID_RP_PICO_BOARD}
    IN  IF S = {} THEN Null
        ELSE img.entries[CHOOSE k \in S : \A j \in S : k >= j].text

\* C25 (amended): board is the value of the first feature that starts with
\* "Board: " when that value is not empty; when there is no such feature, or
\* the value of the first one is empty, board is the text of the board-name
\* (PICO_BOARD) entry, the last one if there are several, else null.  variant
\* and git are the values of the first feature starting with "Variant: " and
\* "Git: ", null when there is none or the value is empty.  A later feature
\* with the same prefix never replaces the first, and a marker pair without
\* matching entries gives the all-null result.
C25_FirstFeatureWins ==
    Extracted /\ ValidWindow(input) =>
      LET b == firstValue(input, PrefixBoard)
          v == firstValue(input, PrefixVariant)
          g == firstValue(input, PrefixGit)
      IN  /\ output.info.board
             = IF b # Null /\ b # <<>> THEN b ELSE boardName(input)
          /\ output.info.variant = IF v = <<>> THEN Null ELSE v
          /\ output.info.git = IF g = <<>> THEN Null ELSE g
          /\ (/\ WithPrefix(input, PrefixBoard) = {}
              /\ WithPrefix(input, PrefixVariant) = {}
              /\ WithPrefix(input, PrefixGit) = {}
              /\ boardName(input) = Null)
             => /\ output.info.board = Null
                /\ output.info.variant = Null
                /\ output.info.git = Null
                /\ ~output.info.isPicoCTR

\* two board features: the first is reported
C25_Witness ==
    /\ Extracted /\ ValidWindow(input)
    /\ Len(input.entries) = 2
    /\ Resolved(input) = {1, 2}
    /\ input.entries[1].text = TextBoardOther
    /\ input.entries[2].text = TextBoardAGC
    /\ output.info.board = <<111, 116, 104, 101, 114>>

\* C25 as stated: board is the value of the first feature starting with
\* "Board: " whenever there is one, else the board-name entry, else null
C25_AsStated ==
    Extracted /\ ValidWindow(input) =>
      LET b == firstValue(input, PrefixBoard)
      IN  output.info.board = IF b # Null THEN b ELSE boardName(input)

\* character c in lower case
folded(c) == IF c \in 65..90 THEN c + 32 ELSE c

\* string str holds the lower-case word w, whatever the case of str
holdsWord(str, w) ==
    \E at \in 0..(Len(str) - Len(w)) :
        \A j \in DOMAIN w : folded(str[at + j]) = w[j]

\* C26: isPicoCTR is true exactly when board is not null and holds, in any
\* case, one of 'picoctr', 'agc', 'americade', 'acustomarcade'; it is false
\* when board is null, whatever version, variant and git are.
C26_TargetByBoardToken ==
    Extracted =>
      /\ output.info.isPicoCTR
         <=> /\ output.info.board # Null
             /\ \E w \in TargetTokens : holdsWord(output.info.board, w)
      /\ output.info.board = Null => ~output.info.isPicoCTR

\* an upper-case board name with a token, and a null board beside a version
C26_Witness ==
    /\ Extracted
    /\ output.info.board = <<65, 71, 67, 45, 49>>
    /\ output.info.isPicoCTR
    /\ output.info.variant # Null

\* the identity getUF2Info extracts from image img
identityOf(img) == extractBinaryInfo(Parsed[img].blocks)

\* C27: the application never starts flashing an image whose identity has
\* isPicoCTR = false: no flashUF2 call made by handleFwFlash works on one.
C27_OnlyTargetImagesFlashed ==
    /\ tasks["flash"].caller = "app"
    /\ tasks["flash"].img # 0
    => identityOf(tasks["flash"].img).isPicoCTR

(***************************************************************************)
(* Properties of the interface selection, over the configurations of       *)
(* SelectSpec.                                                             *)
(***************************************************************************)
\* connect() has gone through its interface selection
Selected == output # NoOutput /\ "selected" \in DOMAIN output

\* vendor class and exactly two bulk endpoints, one IN and one OUT
VendorBulkPair(alt) ==
    /\ alt.interfaceClass = 255
    /\ Cardinality({j \in DOMAIN alt.endpoints :
                      alt.endpoints[j].type = "bulk"}) = 2
    /\ \E j \in DOMAIN alt.endpoints :
         alt.endpoints[j].type = "bulk" /\ alt.endpoints[j].direction = "in"
    /\ \E j \in DOMAIN alt.endpoints :
         alt.endpoints[j].type = "bulk" /\ alt.endpoints[j].direction = "out"

\* C29: connect() claims an interface only if it has class 0xFF and exactly
\* two bulk endpoints, one IN and one OUT, whatever its subclass and
\* protocol; when no interface of the configuration is such a one, connect
\* fails and claims none.
C29_ClaimsVendorBulkPairOnly ==
    Selected =>
      /\ output.selected.claimed # -1 =>
           \E k \in DOMAIN input :
              /\ input[k].interfaceNumber = output.selected.claimed
              /\ VendorBulkPair(input[k].alternates[1])
      /\ (\A k \in DOMAIN input : ~VendorBulkPair(input[k].alternates[1]))
         => /\ output.selected.err # "none"
            /\ output.selected.claimed = -1

(***************************************************************************)
(* Properties of the colour transposition, over the settings of ColorSpec. *)
(***************************************************************************)
\* C30: for every color_order that is a permutation of r, g, b and every
\* colour, _wireToDisplayColor after _displayToWireColor gives the colour
\* back, and so does _displayToWireColor after _wireToDisplayColor; with
\* order 'grb', display (R, G, B) is sent as wire (G, R, B).
C30_ColourRoundTrip ==
    /\ output.calls \in {<<"toWire", "toDisplay">>, <<"toDisplay", "toWire">>}
       => output.settings = input.settings
    /\ /\ output.calls = <<"toWire">>
       /\ input.color_order = <<ChG, ChR, ChB>>
       => output.settings = colourSettings(input.settings.rgb_color_g,
                                           input.settings.rgb_color_r,
                                           input.settings.rgb_color_b)

\* a colour of three different channels sent in order 'gbr' and read back
C30_Witness ==
    /\ output.calls = <<"toWire", "toDisplay">>
    /\ input.color_order = <<ChG, ChB, ChR>>
    /\ input.settings = colourSettings(0, 1, 2)
    /\ output.settings = input.settings

(***************************************************************************)
(* Properties of the address remap, over the images of InfoSpec.           *)
(***************************************************************************)
\* where the copy table of the images sends address ptr: the first entry
\* whose window holds it decides
remapped(ptr) ==
    IF ptr >= RamEntries /\ ptr < RamEntries + ImageSize
    THEN FLASH_BASE + (ptr - RamEntries)
    ELSE IF ptr >= RamLost /\ ptr < RamLost + RamWindow
    THEN LostSource + (ptr - RamLost)
    ELSE ptr

\* the image with every RAM address replaced by the flash address it is a
\* copy of
inFlash(img) ==
    [header |-> [img.header EXCEPT
                   !.kind = IF @ = "ramPair" THEN "pair" ELSE @],
     entries |-> [k \in DOMAIN img.entries |->
                    [img.entries[k] EXCEPT
                       !.at = IF @ = "ram" THEN "flash" ELSE @,
                       !.str = IF @ = "ram" THEN "flash" ELSE @]]]

\* C31: _remapAddress returns flashStart + (addr - ramStart) of the first
\* table entry with ramStart <= addr < ramEnd and addr itself when no window
\* holds addr; biStart, every entry pointer and every string pointer go
\* through it before bytes are read, so an image whose pointers name RAM
\* copies gives the result of the image whose pointers name the flash
\* addresses.
C31_PointersRemapped ==
    Extracted =>
      /\ \A ptr \in DOMAIN output.remaps : output.remaps[ptr] = remapped(ptr)
      /\ output.info = extractBinaryInfo(imageBlocks(inFlash(input)))

\* the pointer array, an entry and its string all named by RAM addresses
C31_Witness ==
    /\ Extracted
    /\ input.header.kind = "ramPair"
    /\ Len(input.entries) = 2
    /\ input.entries[2].at = "ram" /\ input.entries[2].str = "ram"
    /\ input.entries[1].at = "flash"
    /\ output.remaps[RamEntries + PointersAt] = FLASH_BASE + PointersAt
    /\ output.info.board = <<65, 71, 67, 45, 49>>
    /\ output.info.version # Null

(***************************************************************************)
(* Properties of the memory map, over the block lists of MemSpec.          *)
(***************************************************************************)
\* the blocks of the list that hold address addr
holders(addr) ==
    {k \in DOMAIN input.blocks :
        /\ FLASH_BASE + input.blocks[k][1] <= addr
        /\ addr < FLASH_BASE + input.blocks[k][1] + input.blocks[k][2]}

\* the byte block k of the list holds at address addr
byteAt(k, addr) == SlotSize * k + (addr - (FLASH_BASE + input.blocks[k][1]))

\* C32: _readAt returns the size bytes mapped at addr .. addr + size - 1, in
\* one block or across blocks, and null exactly when a byte of the range is
\* in no block.
C32_ReadsMappedBytes ==
    output # NoOutput /\ output.call = "_readAt" =>
      LET range == {output.addr + j : j \in 0..(output.size - 1)}
      IN  IF \A a \in range : holders(a) # {}
          THEN /\ output.read.ok
               /\ Len(output.read.bytes) = output.size
               /\ \A j \in 1..output.size :
                    \E k \in holders(output.addr + j - 1) :
                       output.read.bytes[j] = byteAt(k, output.addr + j - 1)
          ELSE ~output.read.ok

\* C36: _findSegment returns a block that holds addr whenever a block of the
\* memory map holds addr, and null only when none does.
C36_FindsHoldingBlock ==
    output # NoOutput /\ output.call = "_findSegment" =>
      IF holders(output.addr) = {} THEN ~output.found
      ELSE /\ output.found
           /\ output.seg.addr <= output.addr
           /\ output.addr < output.seg.addr + Len(output.seg.data)

(***************************************************************************)
(* Properties of the erase and write commands of a flash session.          *)
(***************************************************************************)
\* the FLASH_ERASE or WRITE command flashUF2 has just gone past had a
\* transfer of its last attempt that did not complete with status ok
TransferLost ==
    LET last == tasks["flash"].last
    IN  /\ last.id \in {CMD_FLASH_ERASE, CMD_WRITE}
        /\ last.ok
        /\ \E i \in DOMAIN last.hist :
              /\ last.hist[i].att = last.attempts - 1
              /\ last.hist[i].k \in {"cmd", "data_out", "ack_in"}
              /\ last.hist[i].res # "ok"

\* C34: flashUF2 reports 'done' only if the command frame, the data and the
\* acknowledgment of every FLASH_ERASE and WRITE command it issued were
\* transferred successfully; stated for the command 'done' follows: when a
\* transfer of the last WRITE failed in the attempt that ended the command,
\* the step that ends the REBOOT after it does not report 'done'.
C34_DoneOnlyAfterCleanTransfers ==
    [][TransferLost => tasks'["flash"].pc # "done"]_vars

\* the sectors of the flash the images reach
Sectors == {FLASH_BASE + k * FLASH_SECTOR_SIZE : k \in 0..7}

\* every byte of every WRITE issued lies in the range of a FLASH_ERASE
\* command whose _sendCommand call resolved before the WRITE was issued
WritesAfterErase ==
    LET L == tasks["flash"].log
    IN  \A j \in WritesIssued :
          \A a \in {L[j].args[1], L[j].args[1] + L[j].args[2] - 1} :
            \E i \in 1..(j - 1) :
               /\ L[i].e = "ok"
               /\ L[i].id = CMD_FLASH_ERASE
               /\ L[i].args[1] <= a
               /\ a < L[i].args[1] + L[i].args[2]

\* the FLASH_ERASE command just gone past holds sector s, and a transfer of
\* its last attempt did not complete with status ok
EraseLost(s) ==
    LET last == tasks["flash"].last
    IN  /\ TransferLost
        /\ last.id = CMD_FLASH_ERASE
        /\ last.args[1] <= s
        /\ s < last.args[1] + last.args[2]

\* a WRITE has been issued to sector s
WrittenTo(s) ==
    LET L == tasks["flash"].log
    IN  \E j \in WritesIssued :
           s <= L[j].args[1] /\ L[j].args[1] < s + FLASH_SECTOR_SIZE

\* C33: every byte a WRITE command of flashUF2 targets lies in a range
\* erased by an earlier, completed FLASH_ERASE command of the session: the
\* WRITE follows a FLASH_ERASE of its range, and no WRITE is issued to a
\* sector of the FLASH_ERASE before it when a transfer of that FLASH_ERASE
\* failed in the attempt that ended the command.
C33_WritesInsideErased ==
    /\ WritesAfterErase
    /\ \A s \in Sectors : ~(EraseLost(s) /\ WrittenTo(s))

\* the WRITE commands the payloads of the image ask for: the address and
\* the size of every 256-byte chunk of every block, the last chunk of a
\* block holding what is left
chunksOf(img) ==
    LET blocks == Parsed[img].blocks
        chunks == {kc \in (DOMAIN blocks) \X (0..1) :
                     FLASH_PAGE_SIZE * kc[2] < Len(blocks[kc[1]].data)}
        left(kc) == Len(blocks[kc[1]].data) - FLASH_PAGE_SIZE * kc[2]
    IN  {<<blocks[kc[1]].addr + FLASH_PAGE_SIZE * kc[2],
           IF left(kc) < FLASH_PAGE_SIZE THEN left(kc) ELSE FLASH_PAGE_SIZE>> :
          kc \in chunks}

TerminalEvents ==
    LET L == tasks["flash"].log
    IN  {j \in DOMAIN L :
           L[j].e = "progress" /\ L[j].phase \in {"done", "error"}}

\* flashUF2 has been called and has not ended
FlashPending == tasks["flash"].pc \notin {"idle", "done", "error"}

\* flashUF2 has ended: its promise is resolved (done) or rejected (error)
FlashEnded == tasks["flash"].pc \in {"done", "error"}

\* one terminal event, the last of the log, of the phase the call ended in
\* and nothing awaited; none while the call has not ended
OneTerminalEvent ==
    LET t == tasks["flash"]
    IN  /\ Cardinality(TerminalEvents) <= 1
        /\ FlashEnded <=> TerminalEvents # {}
        /\ FlashEnded => /\ TerminalEvents = {Len(t.log)}
                         /\ t.log[Len(t.log)].phase = t.pc
                         /\ t.wait = "none"

\* C37: with every transfer settling in the end, every flashUF2 call emits
\* exactly one terminal progress event, 'done' or 'error', never both and
\* never neither, and sends no protocol command after it.
C37_OneTerminalEvent ==
    /\ FlashPending ~> FlashEnded
    /\ []OneTerminalEvent
    /\ [][FlashEnded => tasks'["flash"] = tasks["flash"] /\ built' = built]_vars

\* a flash that ended in error after its first WRITE had been issued
C37_Witness ==
    /\ tasks["flash"].pc = "error"
    /\ WritesIssued # {}
    /\ Cardinality(TerminalEvents) = 1

(***************************************************************************)
(* Properties of the end of a readInstalledFirmwareInfo call.              *)
(***************************************************************************)
\* readInstalledFirmwareInfo has settled: resolved (done) or rejected (error)
ReadSettled == tasks["read"].pc \in {"done", "error"}

\* the EXCLUSIVE_ACCESS commands of the read call that were issued with the
\* argument exclusive, as positions of its log
AccessIssued(exclusive) ==
    LET L == tasks["read"].log
    IN  {i \in DOMAIN L : /\ L[i].e = "issue"
                          /\ L[i].id = CMD_EXCLUSIVE_ACCESS
                          /\ L[i].args = <<exclusive>>}

\* the EXCLUSIVE_ACCESS(acquire) of the read call completed
AcquireCompleted ==
    LET L == tasks["read"].log
    IN  \E j \in DOMAIN L :
            /\ L[j].e = "ok"
            /\ L[j].id = CMD_EXCLUSIVE_ACCESS
            /\ \E i \in AccessIssued(1) : i < j
            /\ \A i \in AccessIssued(0) : j < i

\* C38: on every path of readInstalledFirmwareInfo on which
\* EXCLUSIVE_ACCESS(acquire) succeeded, an EXCLUSIVE_ACCESS(release) is
\* attempted before the call settles, also when EXIT_XIP or a flash read
\* fails.
C38_ReleaseAfterAcquire ==
    (ReadSettled /\ AcquireCompleted) => AccessIssued(0) # {}

\* the part of C38 the code keeps: a call that got as far as its read loop
\* attempts the release before it settles, whatever the reads did
ReleaseAfterReadLoop ==
    LET L == tasks["read"].log
    IN  (/\ ReadSettled
         /\ \E i \in DOMAIN L : L[i].e = "issue" /\ L[i].id = CMD_READ)
        => AccessIssued(0) # {}

(***************************************************************************)
(* Properties of the page while a flash is in progress, over AppSpec.      *)
(***************************************************************************)
\* a step leaves the connection of the flash in progress to the flashUF2
\* call: the page keeps its PicobootConnection, the device handle is dropped
\* by the 'disconnect' event only, and a command is built by a call of the
\* class that is running, not by a handler of the page
ConnectionLeftToFlash ==
    /\ picoboot' = picoboot
    /\ device' # device => attached = "detached" /\ attached' = "notified"
    /\ built' # built => \E id \in TaskIds : tasks'[id] # tasks[id]

\* the flashUF2 call of handleFwFlash has settled
AppFlashSettled == flashSettled(tasks["flash"])

\* C39: while isFlashing is true no action of the application disconnects,
\* replaces or sends a reboot command on the connection the flashUF2 call in
\* progress uses, only a device-initiated disconnect ends that connection
\* before flashUF2 settles, and isFlashing is false once it has settled.
C39_FlashKeepsConnection ==
    /\ [][isFlashing => ConnectionLeftToFlash]_vars
    /\ [](AppFlashSettled => ~isFlashing)

\* the part of C39 the code keeps: every step but returnToConfigMode leaves
\* the connection to the flash in progress, and isFlashing ends with the call
FlashKeepsConnectionButReturn ==
    /\ [][isFlashing /\ ~ReturnToConfigMode => ConnectionLeftToFlash]_vars
    /\ [](AppFlashSettled => ~isFlashing)

====
